---------------------------- MODULE Spec2Model ----------------------------
(***************************************************************************)
(* A model of the document/viewport core of StudyView3D:                   *)
(*   - Document (manifest tree, indices, lookups, path resolution),        *)
(*   - Model (page-to-model viewport transforms, clip regions).            *)
(* JavaScript strings are sequences of one-character strings; manifest     *)
(* nodes are numbered 1..n in pre-order, node 1 being the root.            *)
(***************************************************************************)
EXTENDS Integers, Sequences, FiniteSets, TLC

VARIABLES
    myData,            \* Document.myData: the manifest tree (with parent fields)
    myPath,            \* Document.myPath
    myViewGeometry,    \* Document.myViewGeometry: guid -> node
    myNumViews,        \* Document.myNumViews: guid -> count
    myPropertyDb,      \* Document.myPropertyDb
    built,             \* the Document constructor has run
    offline,           \* Global.offline
    offlineResourcePrefix, \* Global.offlineResourcePrefix
    f2d,               \* Model.myData: viewports, clips, viewportTransforms
    ret,               \* the last call and what it returned
    LMV_THIRD_PARTY_COOKIE, \* the process-wide third-party-cookie flag
    requestHeader,     \* what refreshRequestHeader has put into the headers
    loads,             \* the calls of Document.load: callbacks, requests sent,
                       \* answers of the transport, manifests received,
                       \* callbacks invoked
    pending            \* the requests the transport has not answered yet

vars == <<myData, myPath, myViewGeometry, myNumViews, myPropertyDb, built,
          offline, offlineResourcePrefix, f2d, ret,
          LMV_THIRD_PARTY_COOKIE, requestHeader, loads, pending>>

docVars == <<myData, myPath, myViewGeometry, myNumViews, myPropertyDb, built>>
loadVars == <<LMV_THIRD_PARTY_COOKIE, requestHeader, loads, pending>>
cfgVars == <<offline, offlineResourcePrefix, loadVars>>

---------------------------------------------------------------------------
(* Bounds *)

\* Largest number of nodes of a manifest tree.
MaxNodes == 4

---------------------------------------------------------------------------
(* JavaScript values *)

Null == [t |-> "null"]
Undefined == [t |-> "undefined"]
Absent == "<absent>"
NoNode == 0
Str(s) == [t |-> "string", v |-> s]
Num(k) == [t |-> "number", v |-> k]
Node(i) == [t |-> "node", v |-> i]
List(s) == [t |-> "list", v |-> s]
Thrown(e) == [t |-> "throw", v |-> e]
Idle == [op |-> "none"]

Max(a, b) == IF a >= b THEN a ELSE b
Min(a, b) == IF a <= b THEN a ELSE b

\* String.prototype.indexOf(pat), 0-based, -1 when absent.
MatchAt(s, pat, i) ==
    /\ i + Len(pat) <= Len(s)
    /\ \A k \in 1..Len(pat) : s[i + k] = pat[k]

IndexOf(s, pat) ==
    LET hits == {i \in 0..Len(s) : MatchAt(s, pat, i)}
    IN IF hits = {} THEN -1 ELSE CHOOSE i \in hits : \A j \in hits : i <= j

\* String.prototype.lastIndexOf(pat).
LastIndexOf(s, pat) ==
    LET hits == {i \in 0..Len(s) : MatchAt(s, pat, i)}
    IN IF hits = {} THEN -1 ELSE CHOOSE i \in hits : \A j \in hits : i >= j

\* String.prototype.substr(start): a negative start counts from the end.
SubstrFrom(s, start) ==
    LET b == IF start < 0 THEN Max(Len(s) + start, 0) ELSE Min(start, Len(s))
    IN SubSeq(s, b + 1, Len(s))

\* String.prototype.substr(start, length).
Substr(s, start, length) ==
    LET b == IF start < 0 THEN Max(Len(s) + start, 0) ELSE Min(start, Len(s))
        e == Min(b + Max(length, 0), Len(s))
    IN SubSeq(s, b + 1, e)

\* String.prototype.replace(pat, rep) with a string pattern: first occurrence.
Replace(s, pat, rep) ==
    LET i == IndexOf(s, pat)
    IN IF i = -1 THEN s
       ELSE SubSeq(s, 1, i) \o rep \o SubSeq(s, i + Len(pat) + 1, Len(s))

---------------------------------------------------------------------------
(* Manifest nodes *)

MIME_DB == "application/autodesk-db"
MIME_SVF == "application/autodesk-svf"
MIME_F2D == "application/autodesk-f2d"

\* The node kinds a manifest is built from: type, role and mime of a node.
KindAttr ==
    [ folder   |-> [type |-> "folder",   role |-> "viewable",    mime |-> Absent],
      geom2d   |-> [type |-> "geometry", role |-> "2d",          mime |-> Absent],
      geom3d   |-> [type |-> "geometry", role |-> "3d",          mime |-> Absent],
      geomX    |-> [type |-> "geometry", role |-> "thumbnail",   mime |-> Absent],
      view     |-> [type |-> "view",     role |-> "3d",          mime |-> Absent],
      db       |-> [type |-> "resource", role |-> Absent,        mime |-> MIME_DB],
      leaflet  |-> [type |-> "resource", role |-> "leaflet",     mime |-> "image/png"],
      zip      |-> [type |-> "resource", role |-> "leaflet-zip", mime |-> "application/zip"],
      f2d      |-> [type |-> "resource", role |-> "graphics",    mime |-> MIME_F2D],
      svf      |-> [type |-> "resource", role |-> "graphics",    mime |-> MIME_SVF],
      tileRoot |-> [type |-> "resource", role |-> "tileRoot",    mime |-> "image/png"] ]

\* guid of node i: unique tree-wide.
GuidTable == <<"X1", "X2", "X3", "X4", "X5", "X6", "X7", "X8">>
GuidOf(i) == GuidTable[i]
Guids == {GuidTable[i] : i \in 1..Len(GuidTable)}

\* ViewingService.OSS_PREFIX: urns of the object storage system start with it.
OSS_PREFIX == <<"o", "s", ":">>

\* urn of a property-database node, by node number: a plain path, an OSS
\* path with escaped separators, a urn without separator, a nested path,
\* and an empty urn.
DbUrn(i) ==
    CASE i = 1 -> <<"a", "/", "p">>
      [] i = 2 -> OSS_PREFIX \o <<"b", "%", "2", "F", "p">>
      [] i = 3 -> <<"c", "/", "d", "/", "p">>
      [] i = 4 -> <<"e">>
      [] i = 5 -> <<>>
      [] OTHER -> <<"f", "/">>

\* urn of node i of kind k; undefined when the node has none: folders,
\* geometries and views have none, and a resource that is node 4 has none.
UrnOf(k, i) ==
    CASE k = "db" -> Str(DbUrn(i))
      [] k \in {"leaflet", "zip", "f2d", "svf", "tileRoot"} ->
            IF i = 4 THEN Undefined ELSE Str(<<"r", "/">> \o <<GuidOf(i)>>)
      [] OTHER -> Undefined

\* messages of node i: the root carries one document-wide message, even
\* nodes two messages, node 3 has no messages field.
MessagesOf(i) ==
    CASE i = 1 -> List(<<[type |-> "error", text |-> "m1"]>>)
      [] i = 3 -> Undefined
      [] i % 2 = 0 -> List(<<[type |-> "warning", text |-> GuidOf(i)],
                             [type |-> "error", text |-> GuidOf(i)]>>)
      [] OTHER -> List(<<[type |-> "warning", text |-> GuidOf(i)]>>)

\* Parent vectors of trees whose nodes are numbered in pre-order: node i+1
\* hangs under node i or under one of the ancestors of node i.
RECURSIVE AncestorsOrSelf(_, _)
AncestorsOrSelf(pv, i) ==
    IF i = 1 THEN {1} ELSE {i} \cup AncestorsOrSelf(pv, pv[i])

ParentVectors(n) ==
    {pv \in [1..n -> 0..n] :
        /\ pv[1] = 0
        /\ \A i \in 2..n : pv[i] \in AncestorsOrSelf(pv, i - 1)}

RECURSIVE AscendingSeq(_)
AscendingSeq(S) ==
    IF S = {} THEN <<>>
    ELSE LET m == CHOOSE x \in S : \A y \in S : x <= y
         IN <<m>> \o AscendingSeq(S \ {m})

\* The raw manifest: what JSON.parse hands to the Document constructor.
\* No node has a parent field yet.
Manifest(n, pv, kinds) ==
    [ n        |-> n,
      kind     |-> kinds,
      children |-> [i \in 1..n |-> AscendingSeq({j \in 2..n : pv[j] = i})],
      parent   |-> [i \in 1..n |-> NoNode] ]

Nodes(d) == 1..d.n
TypeOf(d, i) == KindAttr[d.kind[i]].type
RoleOf(d, i) == KindAttr[d.kind[i]].role
MimeOf(d, i) == KindAttr[d.kind[i]].mime
UrnOfNode(d, i) == UrnOf(d.kind[i], i)

\* Truthiness of a string-valued property: neither undefined nor "".
Truthy(s) == s.t = "string" /\ s.v # <<>>

---------------------------------------------------------------------------
(* Document: the constructor *)

PCT2F == <<"%", "2", "F">>
SLASH == <<"/">>

\* The path of a shared property database, from the urn of its node.
PropertyDbOf(urn) ==
    IF IndexOf(urn, OSS_PREFIX) = 0
    THEN Substr(urn, 0, LastIndexOf(urn, PCT2F) + 3)
    ELSE Substr(urn, 0, LastIndexOf(urn, SLASH) + 1)

\* The loop over the children of a geometry item: records the geometry of
\* every view child and counts them.
\* A loop that records the geometry for every child, view or not.
RECURSIVE viewLoopAnyChild(_, _, _, _, _)
viewLoopAnyChild(d, item, i, acc, viewCount) ==
    IF i > Len(d.children[item])
    THEN [acc EXCEPT !.nv[GuidOf(item)] = Num(viewCount)]
    ELSE LET child == d.children[item][i]
         IN viewLoopAnyChild(d, item, i + 1,
                             [acc EXCEPT !.vg[GuidOf(child)] = item],
                             viewCount + 1)

RECURSIVE viewLoop(_, _, _, _, _)
viewLoop(d, item, i, acc, viewCount) ==
    IF i > Len(d.children[item])
    THEN [acc EXCEPT !.nv[GuidOf(item)] = Num(viewCount)]
    ELSE LET child == d.children[item][i]
         IN IF child # NoNode /\ TypeOf(d, child) = "view"
            THEN viewLoop(d, item, i + 1,
                          [acc EXCEPT !.vg[GuidOf(child)] = item],
                          viewCount + 1)
            ELSE viewLoop(d, item, i + 1, acc, viewCount)

RECURSIVE annotateViews(_, _, _)
RECURSIVE annotateChildren(_, _, _, _)
annotateViews(d, item, acc) ==
    IF item = NoNode THEN acc
    ELSE LET childCount == Len(d.children[item])
             urn == UrnOfNode(d, item)
         IN IF TypeOf(d, item) = "geometry" /\ childCount # 0
            THEN viewLoop(d, item, 1, acc, 0)
            ELSE IF MimeOf(d, item) = MIME_DB /\ Truthy(urn)
            THEN [acc EXCEPT !.db = Str(PropertyDbOf(urn.v))]
            ELSE IF 0 < childCount
            THEN annotateChildren(d, item, 1, acc)
            ELSE acc

\* A loop that stops after the first child.
annotateFirstChildOnly(d, item, i, acc) ==
    IF i > Len(d.children[item]) THEN acc
    ELSE annotateViews(d, d.children[item][i], acc)

annotateChildren(d, item, i, acc) ==
    IF i > Len(d.children[item]) THEN acc
    ELSE annotateChildren(d, item, i + 1,
                          annotateViews(d, d.children[item][i], acc))

\* Populates the parent field of every node below item.
RECURSIVE traverse(_, _)
RECURSIVE traverseLoop(_, _, _)
traverse(d, item) ==
    IF item = NoNode THEN d ELSE traverseLoop(d, item, 1)

\* A loop that sets the parent of the direct children only.
RECURSIVE traverseLoopFlat(_, _, _)
traverseLoopFlat(d, item, i) ==
    IF i > Len(d.children[item]) THEN d
    ELSE traverseLoopFlat([d EXCEPT !.parent[d.children[item][i]] = item],
                          item, i + 1)

traverseLoop(d, item, i) ==
    IF i > Len(d.children[item]) THEN d
    ELSE LET child == d.children[item][i]
         IN traverseLoop(traverse([d EXCEPT !.parent[child] = item], child),
                         item, i + 1)

EmptyIndex == [vg |-> [g \in Guids |-> NoNode],
               nv |-> [g \in Guids |-> Undefined],
               db |-> Null]

\* new Document(dataJSON, path, acmsession)
Construct ==
    /\ ~built
    /\ LET acc == annotateViews(myData, 1, EmptyIndex)
       IN /\ myViewGeometry' = acc.vg
          /\ myNumViews' = acc.nv
          /\ myPropertyDb' = acc.db
    /\ myData' = traverse(myData, 1)
    /\ built' = TRUE
    /\ UNCHANGED <<myPath, cfgVars, f2d, ret>>

\* The caller takes the value the last call returned.
Return ==
    /\ ret # Idle
    /\ ret' = Idle
    /\ UNCHANGED <<docVars, cfgVars, f2d>>

---------------------------------------------------------------------------
(* Document: index getters *)

\* Document.prototype.getRootItem
getRootItem == 1

\* Document.prototype.getViewGeometry(item)
getViewGeometry(item) ==
    IF item = NoNode THEN Thrown("TypeError")
    ELSE IF myViewGeometry[GuidOf(item)] = NoNode THEN Undefined
    ELSE Node(myViewGeometry[GuidOf(item)])

\* Document.prototype.getNumViews(item)
getNumViews(item) ==
    IF item = NoNode THEN Thrown("TypeError")
    ELSE LET v == myNumViews[GuidOf(item)]
         IN IF v.t = "number" /\ v.v # 0 THEN v ELSE Num(0)

\* Document.prototype.getPropertyDbPath()
getPropertyDbPath == myPropertyDb

CallGetViewGeometry ==
    /\ built /\ ret = Idle
    /\ \E item \in Nodes(myData) \cup {NoNode} :
          ret' = [op |-> "getViewGeometry", item |-> item,
                  val |-> getViewGeometry(item)]
    /\ UNCHANGED <<docVars, cfgVars, f2d>>

CallGetNumViews ==
    /\ built /\ ret = Idle
    /\ \E item \in Nodes(myData) \cup {NoNode} :
          ret' = [op |-> "getNumViews", item |-> item,
                  val |-> getNumViews(item)]
    /\ UNCHANGED <<docVars, cfgVars, f2d>>

CallGetPropertyDbPath ==
    /\ built /\ ret = Idle
    /\ ret' = [op |-> "getPropertyDbPath", val |-> getPropertyDbPath]
    /\ UNCHANGED <<docVars, cfgVars, f2d>>

---------------------------------------------------------------------------
(* Document: lookups *)

\* The keys of a manifest node that hold objects, in enumeration order;
\* parent is the last one, the constructor having added it.
ObjectKeys == <<"children", "messages", "parent">>

\* A walk that follows every object-valued field.
DescendsAll(key) == key \in {"children", "messages", "parent"}

\* getItemById descends into every object-valued field but parent.
Descends(key) == key # "parent"

\* A recursion deeper than any acyclic walk of the manifest needs: the
\* call stack overflows (RangeError).
Overflow == -1
StackLimit(d) == 2 * d.n + 2

\* traverse(data) of getItemById on node item: the node itself when its
\* guid is id, else the first hit below its object-valued fields, else
\* NoNode (null).
RECURSIVE byIdNode(_, _, _, _)
RECURSIVE byIdKeys(_, _, _, _, _)
RECURSIVE byIdArray(_, _, _, _, _)
byIdNode(d, item, id, fuel) ==
    IF item = NoNode THEN NoNode
    ELSE IF fuel = 0 THEN Overflow
    ELSE IF GuidOf(item) = id THEN item
    ELSE byIdKeys(d, item, id, fuel, 1)

byIdKeys(d, item, id, fuel, k) ==
    IF k > Len(ObjectKeys) THEN NoNode
    ELSE LET key == ObjectKeys[k]
             found ==
                IF ~Descends(key) THEN NoNode
                ELSE IF key = "children"
                THEN byIdArray(d, d.children[item], id, fuel - 1, 1)
                ELSE IF key = "parent"
                THEN byIdNode(d, d.parent[item], id, fuel - 1)
                ELSE NoNode   \* messages: objects that carry no guid
         IN IF found # NoNode THEN found
            ELSE byIdKeys(d, item, id, fuel, k + 1)

byIdArray(d, arr, id, fuel, i) ==
    IF fuel = 0 THEN Overflow
    ELSE IF i > Len(arr) THEN NoNode
    ELSE LET found == byIdNode(d, arr[i], id, fuel - 1)
         IN IF found # NoNode THEN found
            ELSE byIdArray(d, arr, id, fuel, i + 1)

\* Document.prototype.getItemById(id)
getItemById(id) ==
    LET r == byIdNode(myData, getRootItem, id, StackLimit(myData))
    IN IF r = Overflow THEN Thrown("RangeError")
       ELSE IF r = NoNode THEN Null ELSE Node(r)

\* The identifier parent that getMessages reads is no variable of the
\* function: it resolves to the global of that name. In a browser this is
\* window.parent, a Window; elsewhere the identifier is unbound.
GlobalEnvs == {"browser", "noglobal"}
GlobalParent(env) == IF env = "browser" THEN [t |-> "window"] ELSE Undefined

\* The while loop of getMessages.
RECURSIVE messagesLoop(_, _, _, _, _)
messagesLoop(d, current, excludeGlobal, env, messages) ==
    IF current = NoNode THEN List(messages)
    ELSE IF excludeGlobal /\ env = "noglobal" THEN Thrown("ReferenceError")
    ELSE IF excludeGlobal /\ GlobalParent(env) = Node(getRootItem)
    THEN List(messages)
    ELSE LET m == MessagesOf(current)
         IN messagesLoop(d, d.parent[current], excludeGlobal, env,
                         IF m.t = "list" THEN messages \o m.v ELSE messages)

\* Document.prototype.getMessages(item, excludeGlobal)
getMessages(item, excludeGlobal, env) ==
    IF item = NoNode THEN List(<<>>)
    ELSE messagesLoop(myData, item, excludeGlobal, env, <<>>)

\* hasProperties(item, properties) of getSubItemsWithProperties
hasProperties(d, item, properties) ==
    \A p \in DOMAIN properties :
        /\ KindAttr[d.kind[item]][p] # Absent
        /\ properties[p] = KindAttr[d.kind[item]][p]

\* Document.getSubItemsWithProperties(item, properties, recursive)
RECURSIVE getSubItemsWithProperties(_, _, _, _)
RECURSIVE subItemsLoop(_, _, _, _, _, _)
getSubItemsWithProperties(d, item, properties, recursive) ==
    IF item = NoNode THEN <<>>
    ELSE subItemsLoop(d, item, properties, recursive, 1, <<>>)

\* A loop that searches only below the children that match.
subItemsBelowMatches(d, item, properties, recursive, i, subItems) ==
    IF i > Len(d.children[item]) THEN subItems
    ELSE LET child == d.children[item][i]
             hit == hasProperties(d, child, properties)
             s1 == IF hit THEN Append(subItems, child) ELSE subItems
             s2 == IF recursive /\ hit
                   THEN s1 \o getSubItemsWithProperties(d, child, properties,
                                                        recursive)
                   ELSE s1
         IN subItemsLoop(d, item, properties, recursive, i + 1, s2)

subItemsLoop(d, item, properties, recursive, i, subItems) ==
    IF i > Len(d.children[item]) THEN subItems
    ELSE LET child == d.children[item][i]
             s1 == IF hasProperties(d, child, properties)
                   THEN Append(subItems, child) ELSE subItems
             s2 == IF recursive
                   THEN s1 \o getSubItemsWithProperties(d, child, properties,
                                                        recursive)
                   ELSE s1
         IN subItemsLoop(d, item, properties, recursive, i + 1, s2)

\* The property filters the calls are made with.
Filters == { [type |-> "geometry"],
             [type |-> "view", role |-> "3d"],
             [mime |-> MIME_DB] }

CallGetItemById ==
    /\ built /\ ret = Idle
    /\ \E i \in 1..(myData.n + 1) :
          ret' = [op |-> "getItemById", id |-> GuidOf(i),
                  val |-> getItemById(GuidOf(i))]
    /\ UNCHANGED <<docVars, cfgVars, f2d>>

CallGetMessages ==
    /\ built /\ ret = Idle
    /\ \E item \in Nodes(myData) \cup {NoNode}, excludeGlobal \in BOOLEAN,
          env \in GlobalEnvs :
          ret' = [op |-> "getMessages", item |-> item,
                  excludeGlobal |-> excludeGlobal,
                  val |-> getMessages(item, excludeGlobal, env)]
    /\ UNCHANGED <<docVars, cfgVars, f2d>>

CallGetSubItems ==
    /\ built /\ ret = Idle
    /\ \E item \in Nodes(myData) \cup {NoNode}, properties \in Filters,
          recursive \in BOOLEAN :
          ret' = [op |-> "getSubItemsWithProperties", item |-> item,
                  properties |-> properties, recursive |-> recursive,
                  val |-> getSubItemsWithProperties(myData, item, properties,
                                                    recursive)]
    /\ UNCHANGED <<docVars, cfgVars, f2d>>

---------------------------------------------------------------------------
(* Document: path resolution *)

URN == <<"u", "r", "n">>
FILE_MARKER == <<"$", "f", "i", "l", "e", "$">>
BUBBLE_JSON == <<"/", "b", "u", "b", "b", "l", "e", ".", "j", "s", "o", "n">>
ITEMS == <<"/", "i", "t", "e", "m", "s", "/">>

\* The global VIEWING_URL: the base of the viewing service.
VIEWING_URL == <<"h", ":", "/", "/", "v">>

\* The escapes decodeURIComponent meets in the model's prefixes.
Unescaped(pair) ==
    CASE pair = <<"2", "F">> -> "/"
      [] pair = <<"2", "4">> -> "$"
      [] pair = <<"3", "A">> -> ":"
      [] OTHER -> "malformed"

\* decodeURIComponent(s): every %XX becomes its character; a % that no two
\* hexadecimal digits follow raises URIError.
RECURSIVE decodeURIComponent(_)
decodeURIComponent(s) ==
    IF s = <<>> THEN Str(<<>>)
    ELSE IF Head(s) # "%"
    THEN LET rest == decodeURIComponent(Tail(s))
         IN IF rest.t = "throw" THEN rest ELSE Str(<<Head(s)>> \o rest.v)
    ELSE IF Len(s) < 3 \/ Unescaped(SubSeq(s, 2, 3)) = "malformed"
    THEN Thrown("URIError")
    ELSE LET rest == decodeURIComponent(SubSeq(s, 4, Len(s)))
         IN IF rest.t = "throw" THEN rest
            ELSE Str(<<Unescaped(SubSeq(s, 2, 3))>> \o rest.v)

\* An offline branch that joins prefix and rest with a separator of its own.
offlinePathJoined(fullPath) ==
    LET prefix == decodeURIComponent(offlineResourcePrefix)
    IN IF prefix.t = "throw" THEN prefix
       ELSE Str(prefix.v \o SLASH \o SubstrFrom(fullPath, IndexOf(fullPath, SLASH)))

\* The offline branch of getFullPath.
offlinePath(fullPath) ==
    LET prefix == decodeURIComponent(offlineResourcePrefix)
    IN IF prefix.t = "throw" THEN prefix
       ELSE Str(prefix.v \o SubstrFrom(fullPath, IndexOf(fullPath, SLASH)))

\* A test for a source path that ends with the manifest filename.
pathEndsWithManifest ==
    /\ Len(myPath) >= Len(BUBBLE_JSON)
    /\ SubSeq(myPath, Len(myPath) - Len(BUBBLE_JSON) + 1, Len(myPath)) = BUBBLE_JSON

\* this.myPath.indexOf('/bubble.json') !== -1
pathHasManifest == IndexOf(myPath, BUBBLE_JSON) # -1

\* A resolution that looks at the scheme of the urn before the offline mode.
getFullPathSchemeFirst(urn) ==
    IF ~Truthy(urn) THEN urn
    ELSE IF IndexOf(urn.v, URN) = 0
    THEN Str(VIEWING_URL \o ITEMS \o urn.v)
    ELSE IF offline THEN offlinePath(urn.v)
    ELSE IF IndexOf(urn.v, FILE_MARKER) = 0 /\ IndexOf(myPath, BUBBLE_JSON) # -1
    THEN Str(Replace(myPath, BUBBLE_JSON, <<>>) \o Replace(urn.v, FILE_MARKER, <<>>))
    ELSE urn

\* Document.prototype.getFullPath(urn)
getFullPath(urn) ==
    IF ~Truthy(urn) THEN urn
    ELSE IF offline THEN offlinePath(urn.v)
    ELSE IF IndexOf(urn.v, URN) = 0
    THEN Str(VIEWING_URL \o ITEMS \o urn.v)
    ELSE IF IndexOf(urn.v, FILE_MARKER) = 0 /\ pathHasManifest
    THEN Str(Replace(myPath, BUBBLE_JSON, <<>>) \o Replace(urn.v, FILE_MARKER, <<>>))
    ELSE urn

\* The properties of a resource with role leaflet, by node number: nodes
\* with an even number state their tile size.
LeafletTileSize(i) == IF i % 2 = 0 THEN Num(256) ELSE Undefined
LeafletResolution(i) == <<1000 * i, 500 * i>>
LeafletPaper(i) == [width |-> 10 * i, height |-> 7 * i, units |-> "mm"]

\* max_level of a resource with role leaflet-zip, by node number.
ZipMaxLevel(i) == 10 + i

\* LeafletLoader.computeLevelOffset(tileSize): the number of mip levels
\* smaller than one tile.
RECURSIVE levelOffsetFrom(_, _, _)
levelOffsetFrom(tileSize, pixelSize, level) ==
    IF pixelSize >= tileSize THEN level
    ELSE levelOffsetFrom(tileSize, 2 * pixelSize, level + 1)

computeLevelOffset(tileSize) == levelOffsetFrom(tileSize, 1, 0)

\* The load options before any extraction: {}.
EmptyOptions ==
    [urlPattern |-> Undefined, tileSize |-> Undefined, texWidth |-> Undefined,
     texHeight |-> Undefined, paperWidth |-> Undefined,
     paperHeight |-> Undefined, paperUnits |-> Undefined,
     levelOffset |-> Undefined, maxLevel |-> Undefined]

\* No outLoadOptions argument.
NoOptions == [absent |-> TRUE]

\* A search for the zip resource at any depth below the geometry item.
leafletZipItemsDeep(d, geomItem) ==
    getSubItemsWithProperties(d, geomItem, [role |-> "leaflet-zip"], TRUE)

\* The resources with role leaflet-zip getLeafletParams finds.
leafletZipItems(d, geomItem) ==
    getSubItemsWithProperties(d, geomItem, [role |-> "leaflet-zip"], FALSE)

\* getLeafletParams(outLoadOptions, geomItem, leafletItem)
getLeafletParams(d, outLoadOptions, geomItem, leafletItem) ==
    LET ts == LeafletTileSize(leafletItem)
        tileSize == IF ts.t = "number" /\ ts.v # 0 THEN ts.v ELSE 512
        levelOffset == computeLevelOffset(tileSize)
        items == leafletZipItems(d, geomItem)
        o1 == [outLoadOptions EXCEPT
                 !.urlPattern = UrnOfNode(d, leafletItem),
                 !.tileSize = Num(tileSize),
                 !.texWidth = Num(LeafletResolution(leafletItem)[1]),
                 !.texHeight = Num(LeafletResolution(leafletItem)[2]),
                 !.paperWidth = Num(LeafletPaper(leafletItem).width),
                 !.paperHeight = Num(LeafletPaper(leafletItem).height),
                 !.paperUnits = Str(LeafletPaper(leafletItem).units),
                 !.levelOffset = Num(levelOffset)]
    IN IF Len(items) > 0
       THEN [o1 EXCEPT !.maxLevel = Num(ZipMaxLevel(items[1]) - levelOffset)]
       ELSE o1

\* A chain for role 2d that looks for the vector drawing whether or not
\* there is a leaflet.
viewableItems2dVectorFirst(d, item) ==
    LET vector == getSubItemsWithProperties(d, item, [mime |-> MIME_F2D], FALSE)
        leaflet == getSubItemsWithProperties(d, item, [role |-> "leaflet"], FALSE)
    IN IF Len(vector) > 0 THEN vector
       ELSE IF Len(leaflet) > 0 THEN leaflet
       ELSE getSubItemsWithProperties(d, item, [role |-> "tileRoot"], TRUE)

\* The items the role 2d branch of getViewablePath ends with: the leaflet
\* resources; if there is none the vector drawings; if there is none the
\* tileRoot resources at any depth.
viewableItems2d(d, item) ==
    LET leaflet == getSubItemsWithProperties(d, item, [role |-> "leaflet"], FALSE)
        vector == IF Len(leaflet) = 0
                  THEN getSubItemsWithProperties(d, item, [mime |-> MIME_F2D], FALSE)
                  ELSE leaflet
    IN IF Len(vector) = 0
       THEN getSubItemsWithProperties(d, item, [role |-> "tileRoot"], TRUE)
       ELSE vector

\* Document.prototype.getViewablePath(item, outLoadOptions): the value
\* returned and the load options after the call.
RECURSIVE getViewablePath(_, _)
getViewablePath(item, outLoadOptions) ==
    IF item = NoNode
    THEN [val |-> Thrown("TypeError"), out |-> outLoadOptions]
    ELSE IF TypeOf(myData, item) = "geometry"
    THEN LET role == RoleOf(myData, item)
             leaflet == getSubItemsWithProperties(myData, item,
                                                  [role |-> "leaflet"], FALSE)
             out == IF role = "2d" /\ Len(leaflet) > 0 /\ outLoadOptions # NoOptions
                    THEN getLeafletParams(myData, outLoadOptions, item, leaflet[1])
                    ELSE outLoadOptions
             items == IF role = "3d"
                      THEN getSubItemsWithProperties(myData, item,
                                                     [mime |-> MIME_SVF], FALSE)
                      ELSE IF role = "2d" THEN viewableItems2d(myData, item)
                      ELSE <<>>
         IN IF Len(items) > 0
            THEN [val |-> getFullPath(UrnOfNode(myData, items[1])), out |-> out]
            ELSE [val |-> Str(<<>>), out |-> out]
    ELSE IF TypeOf(myData, item) = "view"
    THEN LET geometryItem == getViewGeometry(item)
         IN IF geometryItem.t = "node"
            THEN [val |-> getViewablePath(geometryItem.v, NoOptions).val,
                  out |-> outLoadOptions]
            ELSE [val |-> Str(<<>>), out |-> outLoadOptions]
    ELSE [val |-> Str(<<>>), out |-> outLoadOptions]

CallGetViewablePath ==
    /\ built /\ ret = Idle
    /\ \E item \in Nodes(myData) \cup {NoNode},
          outLoadOptions \in {EmptyOptions, NoOptions} :
          LET r == getViewablePath(item, outLoadOptions)
          IN ret' = [op |-> "getViewablePath", item |-> item,
                     hasOut |-> outLoadOptions # NoOptions,
                     val |-> r.val, out |-> r.out]
    /\ UNCHANGED <<docVars, cfgVars, f2d>>

\* getFullPath(urn), and getFullPath of what it returned.
CallGetFullPath(urns) ==
    /\ built /\ ret = Idle
    /\ \E urn \in urns :
          ret' = [op |-> "getFullPath", urn |-> urn, val |-> getFullPath(urn)]
    /\ UNCHANGED <<docVars, cfgVars, f2d>>

CallGetFullPathAgain ==
    /\ built /\ ret.op = "getFullPath" /\ ret.val.t # "throw"
    /\ ret' = [op |-> "getFullPathAgain", urn |-> ret.urn, first |-> ret.val,
               val |-> getFullPath(ret.val)]
    /\ UNCHANGED <<docVars, cfgVars, f2d>>

---------------------------------------------------------------------------
(* Document: thumbnails *)

THUMBNAILS == <<"/", "t", "h", "u", "m", "b", "n", "a", "i", "l", "s", "/">>

Digits == <<"0", "1", "2", "3", "4", "5", "6", "7", "8", "9">>

\* The decimal numeral of a natural number.
RECURSIVE Numeral(_)
Numeral(k) ==
    IF k < 10 THEN <<Digits[k + 1]>>
    ELSE Numeral(k \div 10) \o <<Digits[(k % 10) + 1]>>

\* What string concatenation makes of a value.
toStringOf(v) ==
    CASE v.t = "string" -> v.v
      [] v.t = "number" -> Numeral(v.v)
      [] v.t = "null" -> <<"n", "u", "l", "l">>
      [] OTHER -> <<"u", "n", "d", "e", "f", "i", "n", "e", "d">>

\* encodeURIComponent(s): the characters of the model's strings that are
\* escaped, each as its %XX; a guid is one piece of letters and digits.
RECURSIVE encodeURIComponent(_)
encodeURIComponent(s) ==
    IF s = <<>> THEN <<>>
    ELSE (CASE Head(s) = "/" -> <<"%", "2", "F">>
            [] Head(s) = "$" -> <<"%", "2", "4">>
            [] Head(s) = ":" -> <<"%", "3", "A">>
            [] Head(s) = "%" -> <<"%", "2", "5">>
            [] OTHER -> <<Head(s)>>)
         \o encodeURIComponent(Tail(s))

\* A number argument that is given and not 0.
TruthyNumber(v) == v.t = "number" /\ v.v # 0

\* Document.prototype.getThumbnailOptions(item, width, height) of a document
\* constructed with acmsession.
getThumbnailOptions(item, width, height, acmsession) ==
    IF item = NoNode THEN Thrown("TypeError")
    ELSE [ t |-> "object",
           urn |-> UrnOfNode(myData, getRootItem),
           width |-> IF TruthyNumber(width) THEN width ELSE Num(200),
           height |-> IF TruthyNumber(height) THEN height ELSE Num(200),
           guid |-> encodeURIComponent(<<GuidOf(item)>>),
           acmsession |-> acmsession ]

\* Document.prototype.getThumbnailPath(item, width, height)
getThumbnailPath(item, width, height, acmsession) ==
    LET data == getThumbnailOptions(item, width, height, acmsession)
    IN IF data.t = "throw" THEN data
       ELSE Str(VIEWING_URL \o THUMBNAILS \o toStringOf(data.urn)
                \o <<"?", "g", "u", "i", "d", "=">> \o data.guid
                \o <<"&", "w", "i", "d", "t", "h", "=">> \o toStringOf(data.width)
                \o <<"&", "h", "e", "i", "g", "h", "t", "=">> \o toStringOf(data.height)
                \o (IF Truthy(data.acmsession)
                    THEN <<"&", "a", "c", "m", "s", "e", "s", "s", "i", "o", "n", "=">>
                         \o data.acmsession.v
                    ELSE <<>>))

\* The width, the height and the session id of the calls.
ThumbnailArgs ==
    { [width |-> Undefined, height |-> Undefined, acmsession |-> Undefined],
      [width |-> Num(0), height |-> Num(64), acmsession |-> Str(<<"s">>)],
      [width |-> Num(128), height |-> Undefined, acmsession |-> Str(<<>>)] }

CallGetThumbnailPath ==
    /\ built /\ ret = Idle
    /\ \E item \in Nodes(myData) \cup {NoNode}, a \in ThumbnailArgs :
          ret' = [op |-> "getThumbnailPath", item |-> item, args |-> a,
                  val |-> getThumbnailPath(item, a.width, a.height, a.acmsession)]
    /\ UNCHANGED <<docVars, cfgVars, f2d>>

---------------------------------------------------------------------------
(* Model: the page-to-model transform of a viewport *)

\* Numbers of the drawing data are counted in units of 1/UnitsPerOne, so
\* that 1e-3 is a whole number of units.
UnitsPerOne == 2000

\* var precision = 1e-3, in units.
precision == 2

Abs(x) == IF x < 0 THEN -x ELSE x

\* JavaScript arrays count from 0: element k of a 16-number array.
El(e, k) == e[k + 1]

\* The array of the 16 numbers f[1] .. f[16].
Elements16(f) ==
    << f[1], f[2], f[3], f[4], f[5], f[6], f[7], f[8],
       f[9], f[10], f[11], f[12], f[13], f[14], f[15], f[16] >>

\* The array with the four elements from a and the four from b exchanged.
SwapFour(e, a, b) ==
    Elements16([k \in 1..16 |->
        IF k - 1 \in a..(a + 3) THEN e[k + (b - a)]
        ELSE IF k - 1 \in b..(b + 3) THEN e[k - (b - a)]
        ELSE e[k]])

\* A repair that exchanges with the third row in either case.
repairSwapsThirdRow(e) ==
    LET e1 == IF Abs(El(e, 0)) < precision THEN SwapFour(e, 0, 8) ELSE e
    IN IF Abs(El(e1, 5)) < precision THEN SwapFour(e1, 4, 8) ELSE e1

\* A repair that copies a row over the row it finds wrong.
repairOverwritesRow(e) ==
    LET e1 == IF Abs(El(e, 0)) < precision
              THEN Elements16([k \in 1..16 |-> IF k <= 4 THEN e[k + 4] ELSE e[k]])
              ELSE e
    IN IF Abs(El(e1, 5)) < precision
       THEN Elements16([k \in 1..16 |-> IF k \in 5..8 THEN e1[k + 4] ELSE e1[k]])
       ELSE e1

\* repairViewportMatrix(elements): the array after the repair.
repairViewportMatrix(e) ==
    LET e1 == IF Abs(El(e, 0)) < precision
              THEN IF Abs(El(e, 4)) > precision
                   THEN SwapFour(e, 0, 4)
                   ELSE SwapFour(e, 0, 8)
              ELSE e
    IN IF Abs(El(e1, 5)) < precision THEN SwapFour(e1, 4, 8) ELSE e1

\* Matrix4.elements is column-major: the entry at row r, column c.
At(m, r, c) == m[c * 4 + r + 1]

IdentityElements == <<1, 0, 0, 0,  0, 1, 0, 0,  0, 0, 1, 0,  0, 0, 0, 1>>

RECURSIVE Gcd(_, _)
Gcd(a, b) == IF b = 0 THEN Abs(a) ELSE Gcd(b, a % Abs(b))

RECURSIVE GcdOfAll(_, _, _)
GcdOfAll(num, k, g) ==
    IF k > Len(num) \/ g = 1 THEN g ELSE GcdOfAll(num, k + 1, Gcd(num[k], g))

\* A matrix of rationals: the integers num over the common denominator den,
\* in lowest terms with a positive denominator, so that equal matrices are
\* equal values.
Rational(num, den) ==
    LET g == GcdOfAll(num, 1, Abs(den)) * (IF den < 0 THEN -1 ELSE 1)
    IN [num |-> Elements16([k \in 1..16 |-> num[k] \div g]), den |-> den \div g]

\* new THREE.Matrix4()
IdentityMatrix == [num |-> IdentityElements, den |-> 1]

Without(sq, j) == SubSeq(sq, 1, j - 1) \o SubSeq(sq, j + 1, Len(sq))

\* The determinant of the rows and columns listed, by expansion along the
\* first row listed.
RECURSIVE DetOf(_, _, _)
RECURSIVE DetTerms(_, _, _, _)
DetOf(m, rows, cols) ==
    IF Len(rows) = 1 THEN At(m, rows[1], cols[1])
    ELSE DetTerms(m, rows, cols, 1)

DetTerms(m, rows, cols, j) ==
    IF j > Len(cols) THEN 0
    ELSE (IF j % 2 = 1 THEN 1 ELSE -1)
            * At(m, rows[1], cols[j]) * DetOf(m, Tail(rows), Without(cols, j))
         + DetTerms(m, rows, cols, j + 1)

Idx4 == <<0, 1, 2, 3>>

Determinant(m) == DetOf(m, Idx4, Idx4)

\* The adjugate: entry (r, c) is the cofactor of entry (c, r).
Adjugate(m) ==
    Elements16([k \in 1..16 |->
        LET r == (k - 1) % 4
            c == (k - 1) \div 4
        IN (IF (r + c) % 2 = 0 THEN 1 ELSE -1)
              * DetOf(m, Without(Idx4, c + 1), Without(Idx4, r + 1))])

\* LmvMatrix4.getInverse(m) of a matrix whose elements are in units: the
\* inverse as a matrix of rationals; the identity when m is singular.
getInverse(e) ==
    LET det == Determinant(e)
    IN IF det = 0 THEN IdentityMatrix
       ELSE LET inverse == Rational(Adjugate(e), det)
            IN Rational(Elements16([k \in 1..16 |-> UnitsPerOne * inverse.num[k]]),
                        inverse.den)

\* LmvMatrix4.multiply: the product a * b.
multiply(a, b) ==
    Rational(Elements16([k \in 1..16 |->
                LET r == (k - 1) % 4
                    c == (k - 1) \div 4
                IN At(a.num, r, 0) * At(b.num, 0, c)
                 + At(a.num, r, 1) * At(b.num, 1, c)
                 + At(a.num, r, 2) * At(b.num, 2, c)
                 + At(a.num, r, 3) * At(b.num, 3, c)]),
             a.den * b.den)

\* The page-to-logical matrix of the page dimensions pd: the scales
\* logical/page on the diagonal, the logical offset as translation.
pageToLogical(pd) ==
    LET d == pd.page_width * pd.page_height
    IN Rational(
         << pd.logical_width * pd.page_height, 0, 0, 0,
            0, pd.logical_height * pd.page_width, 0, 0,
            0, 0, d, 0,
            pd.logical_offset_x * d, pd.logical_offset_y * d, 0, d >>,
         d)

\* The transform getPageToModelTransform computes for viewport vp.
computeTransform(data, vp) ==
    LET modelToLogicalArray == repairViewportMatrix(vp.transform)
        logicalToModel == getInverse(modelToLogicalArray)
    IN multiply(logicalToModel, pageToLogical(data.metadata.page_dimensions))

\* f2d.viewports[vpId], undefined beyond the array.
ViewportAt(data, vpId) ==
    IF vpId \in DOMAIN data.viewports THEN data.viewports[vpId] ELSE Undefined

\* new Array(f2d.viewports.length)
NewArray(data) == [t |-> "array", v |-> [i \in DOMAIN data.viewports |-> Undefined]]

\* An array allocated on every call.
transformsAnew(data) == NewArray(data)

\* f2d.viewportTransforms, allocated when it is not there yet.
transformsOf(data) ==
    IF data.viewportTransforms = Undefined THEN NewArray(data)
    ELSE data.viewportTransforms

\* A get that allocates the cache before it looks for the viewport.
getPageToModelTransformAllocating(data, vpId) ==
    IF data.pageToModelTransform # Undefined
    THEN [val |-> data.pageToModelTransform, data |-> data, computed |-> FALSE]
    ELSE LET vp == ViewportAt(data, vpId)
             transforms == transformsOf(data)
             allocated == [data EXCEPT !.viewportTransforms = transforms]
         IN IF vp = Undefined
            THEN [val |-> IdentityMatrix, data |-> allocated, computed |-> FALSE]
            ELSE IF transforms.v[vpId] # Undefined
            THEN [val |-> transforms.v[vpId], data |-> allocated, computed |-> FALSE]
            ELSE LET logicalToModel == computeTransform(data, vp)
                 IN [val |-> logicalToModel,
                     data |-> [data EXCEPT !.viewportTransforms =
                                  [transforms EXCEPT !.v[vpId] = logicalToModel]],
                     computed |-> TRUE]

\* Model.prototype.getPageToModelTransform(vpId): the value returned, the
\* drawing data after the call, and whether the transform was computed
\* in this call.
getPageToModelTransform(data, vpId) ==
    IF data.pageToModelTransform # Undefined
    THEN [val |-> data.pageToModelTransform, data |-> data, computed |-> FALSE]
    ELSE LET vp == ViewportAt(data, vpId)
         IN IF vp = Undefined
            THEN [val |-> IdentityMatrix, data |-> data, computed |-> FALSE]
            ELSE LET transforms == transformsOf(data)
                     cached == transforms.v[vpId]
                 IN IF cached # Undefined
                    THEN [val |-> cached,
                          data |-> [data EXCEPT !.viewportTransforms = transforms],
                          computed |-> FALSE]
                    ELSE LET logicalToModel == computeTransform(data, vp)
                         IN [val |-> logicalToModel,
                             data |-> [data EXCEPT !.viewportTransforms =
                                          [transforms EXCEPT !.v[vpId] = logicalToModel]],
                             computed |-> TRUE]

CallGetPageToModelTransform ==
    /\ ret = Idle
    /\ \E vpId \in (-1)..Cardinality(DOMAIN f2d.viewports) :
          \E r \in {getPageToModelTransform(f2d, vpId)} :
             /\ f2d' = r.data
             /\ ret' = [op |-> "getPageToModelTransform", vpId |-> vpId,
                        val |-> r.val, computed |-> r.computed]
    /\ UNCHANGED <<docVars, cfgVars>>

\* A number that is the quotient n / d of two integers, in lowest terms with
\* a positive denominator.
Quotient(n, d) ==
    LET g == Gcd(n, d) * (IF d < 0 THEN -1 ELSE 1)
    IN [n |-> n \div g, d |-> d \div g]

\* new THREE.Vector3().set(x, y, z).applyMatrix4(m): the affine image of the
\* point, the fourth row of m taking no part.
applyMatrix4(x, y, z, m) ==
    [ x |-> Quotient(At(m.num, 0, 0) * x + At(m.num, 0, 1) * y
                        + At(m.num, 0, 2) * z + At(m.num, 0, 3), m.den),
      y |-> Quotient(At(m.num, 1, 0) * x + At(m.num, 1, 1) * y
                        + At(m.num, 1, 2) * z + At(m.num, 1, 3), m.den),
      z |-> Quotient(At(m.num, 2, 0) * x + At(m.num, 2, 1) * y
                        + At(m.num, 2, 2) * z + At(m.num, 2, 3), m.den) ]

\* Model.prototype.setData(data)
CallSetData(datas) ==
    /\ ret = Idle
    /\ \E data \in datas :
          /\ f2d' = data
          /\ ret' = [op |-> "setData"]
    /\ UNCHANGED <<docVars, cfgVars>>

---------------------------------------------------------------------------
(* Model: clip regions *)

\* The contours (runs of consecutive point indices) and the points of a
\* clip, as pointInClip and getClip put them together.
RECURSIVE contoursOf(_, _, _)
contoursOf(contourCounts, j, index) ==
    IF j > Len(contourCounts) THEN <<>>
    ELSE <<[k \in 1..contourCounts[j] |-> index + k - 1]>>
         \o contoursOf(contourCounts, j + 1, index + contourCounts[j])

pointsOf(points) ==
    [k \in 1..((Len(points) + 1) \div 2) |->
        [x |-> points[2 * k - 1], y |-> points[2 * k]]]

\* pts[i] of a 0-based point array.
Pt(pts, i) == pts[i + 1]

\* The loop of pointInContour over the vertices j.., with the previous
\* vertex (vtx0X, vtx0Y): the inside flag at the end.
RECURSIVE contourLoop(_, _, _, _, _, _, _, _)
contourLoop(x, y, cntr, pts, j, vtx0X, vtx0Y, inside_flag) ==
    IF j > Len(cntr) THEN inside_flag
    ELSE LET vtx1X == Pt(pts, cntr[j]).x
             vtx1Y == Pt(pts, cntr[j]).y
             yflag0 == (vtx0Y >= y)
             yflag1 == (vtx1Y >= y)
             crosses ==
                /\ yflag0 # yflag1
                /\ (((vtx1Y - y) * (vtx0X - vtx1X) >= (vtx1X - x) * (vtx0Y - vtx1Y))
                      = yflag1)
         IN contourLoop(x, y, cntr, pts, j + 1, vtx1X, vtx1Y,
                        IF crosses THEN ~inside_flag ELSE inside_flag)

\* A test that begins at the first vertex and so leaves out the edge that
\* closes the contour.
pointInContourOpen(x, y, cntr, pts) ==
    IF Len(cntr) = 0 \/ \E j \in 1..Len(cntr) : cntr[j] >= Len(pts)
    THEN Thrown("TypeError")
    ELSE LET first == Pt(pts, cntr[1])
         IN [t |-> "boolean",
             v |-> contourLoop(x, y, cntr, pts, 1, first.x, first.y, FALSE)]

\* pointInContour(x, y, cntr, pts): reading a point that is not there
\* (an empty contour, an index beyond the points) raises TypeError.
pointInContour(x, y, cntr, pts) ==
    IF Len(cntr) = 0 \/ \E j \in 1..Len(cntr) : cntr[j] >= Len(pts)
    THEN Thrown("TypeError")
    ELSE LET last == Pt(pts, cntr[Len(cntr)])
         IN [t |-> "boolean",
             v |-> contourLoop(x, y, cntr, pts, 1, last.x, last.y, FALSE)]

\* A loop that holds a point inside as soon as one contour contains it.
RECURSIVE polygonLoopAny(_, _, _, _, _, _)
polygonLoopAny(x, y, contours, points, i, inside) ==
    IF i > Len(contours) THEN [t |-> "boolean", v |-> inside]
    ELSE LET hit == pointInContour(x, y, contours[i], points)
         IN IF hit.t = "throw" THEN hit
            ELSE polygonLoopAny(x, y, contours, points, i + 1, inside \/ hit.v)

\* Model.prototype.pointInPolygon(x, y, contours, points)
RECURSIVE polygonLoop(_, _, _, _, _, _)
polygonLoop(x, y, contours, points, i, inside) ==
    IF i > Len(contours) THEN [t |-> "boolean", v |-> inside]
    ELSE LET hit == pointInContour(x, y, contours[i], points)
         IN IF hit.t = "throw" THEN hit
            ELSE polygonLoop(x, y, contours, points, i + 1,
                             IF hit.v THEN ~inside ELSE inside)

pointInPolygon(x, y, contours, points) ==
    polygonLoop(x, y, contours, points, 1, FALSE)

\* A loop that skips no clip.
skipsNoClip(i, vpId) == FALSE

\* pointInClip passes over the clip of the point's own viewport: i === vpId,
\* which no string and no undefined satisfies.
skipsClip(i, vpId) == vpId = Num(i)

\* The loop of pointInClip over the clips i.. of a 0-based clip array.
RECURSIVE clipLoop(_, _, _, _, _)
clipLoop(clips, point, vpId, i, clipIds) ==
    IF i >= Len(clips) THEN List(clipIds)
    ELSE IF skipsClip(i, vpId) THEN clipLoop(clips, point, vpId, i + 1, clipIds)
    ELSE LET clip == clips[i + 1]
             inside == pointInPolygon(point.x, point.y,
                                      contoursOf(clip.contourCounts, 1, 0),
                                      pointsOf(clip.points))
         IN IF inside.t = "throw" THEN inside
            ELSE clipLoop(clips, point, vpId, i + 1,
                          IF inside.v THEN Append(clipIds, i) ELSE clipIds)

\* A loop over the clips that begins with the clip of the paper viewport.
pointInClipFromZero(data, point, vpId) == clipLoop(data.clips, point, vpId, 0, <<>>)

\* Model.prototype.pointInClip(point, vpId)
pointInClip(data, point, vpId) == clipLoop(data.clips, point, vpId, 1, <<>>)

\* The drawing data after a get for each of the viewports listed.
RECURSIVE getEach(_, _)
getEach(data, ids) ==
    IF ids = <<>> THEN data
    ELSE getEach(getPageToModelTransform(data, Head(ids)).data, Tail(ids))

\* A conversion that also gets the transform of every other viewport whose
\* clip holds point1.
pageToModelThroughClips(data, point1, point2, vpId) ==
    LET r == getPageToModelTransform(data, vpId)
        vpXform == r.val
        modelPt1 == applyMatrix4(point1.x, point1.y, 0, vpXform)
        modelPt2 == applyMatrix4(point2.x, point2.y, 0, vpXform)
        indices == pointInClip(r.data, point1, Num(vpId))
    IN [ point1 |-> [point1 EXCEPT !.x = modelPt1.x, !.y = modelPt1.y],
         point2 |-> [point2 EXCEPT !.x = modelPt2.x, !.y = modelPt2.y],
         data |-> getEach(r.data, indices.v) ]

\* Model.prototype.pageToModel(point1, point2, vpId): the two points and
\* the drawing data after the call.
pageToModel(data, point1, point2, vpId) ==
    LET r == getPageToModelTransform(data, vpId)
        vpXform == r.val
        modelPt1 == applyMatrix4(point1.x, point1.y, 0, vpXform)
        modelPt2 == applyMatrix4(point2.x, point2.y, 0, vpXform)
    IN [ point1 |-> [point1 EXCEPT !.x = modelPt1.x, !.y = modelPt1.y],
         point2 |-> [point2 EXCEPT !.x = modelPt2.x, !.y = modelPt2.y],
         data |-> r.data ]

CallPageToModel(pairs) ==
    /\ ret = Idle
    /\ \E vpId \in (-1)..Cardinality(DOMAIN f2d.viewports), pair \in pairs :
          \E r \in {pageToModel(f2d, pair[1], pair[2], vpId)} :
             /\ f2d' = r.data
             /\ ret' = [op |-> "pageToModel", vpId |-> vpId,
                        point1 |-> pair[1], point2 |-> pair[2],
                        point1After |-> r.point1, point2After |-> r.point2]
    /\ UNCHANGED <<docVars, cfgVars>>

CallPointInPolygon(polygons, points) ==
    /\ ret = Idle
    /\ \E polygon \in polygons, point \in points :
          ret' = [op |-> "pointInPolygon", x |-> point.x, y |-> point.y,
                  contours |-> polygon.contours, points |-> polygon.points,
                  val |-> pointInPolygon(point.x, point.y, polygon.contours,
                                         polygon.points)]
    /\ UNCHANGED <<docVars, cfgVars, f2d>>

CallPointInClip(points) ==
    /\ ret = Idle
    /\ \E point \in points,
          vpId \in {Num(k) : k \in 0..Len(f2d.clips)} \cup {Str(<<"1">>), Undefined} :
          ret' = [op |-> "pointInClip", point |-> point, vpId |-> vpId,
                  val |-> pointInClip(f2d, point, vpId)]
    /\ UNCHANGED <<docVars, cfgVars, f2d>>

\* Contours that each count their point indices from 0.
RECURSIVE contoursFromZero(_, _)
contoursFromZero(contourCounts, j) ==
    IF j > Len(contourCounts) THEN <<>>
    ELSE <<[k \in 1..contourCounts[j] |-> k - 1]>>
         \o contoursFromZero(contourCounts, j + 1)

\* A decode whose contours all begin at point 0.
getClipFromZero(data, vpId) ==
    IF vpId + 1 \notin DOMAIN data.clips THEN Thrown("TypeError")
    ELSE [ contours |-> contoursFromZero(data.clips[vpId + 1].contourCounts, 1),
           points |-> pointsOf(data.clips[vpId + 1].points) ]

\* Model.prototype.getClip(vpId): reading contourCounts of a clip that is
\* not there throws.
getClip(data, vpId) ==
    IF vpId + 1 \notin DOMAIN data.clips THEN Thrown("TypeError")
    ELSE [ contours |-> contoursOf(data.clips[vpId + 1].contourCounts, 1, 0),
           points |-> pointsOf(data.clips[vpId + 1].points) ]

CallGetClip ==
    /\ ret = Idle
    /\ \E vpId \in 0..Len(f2d.clips) :
          ret' = [op |-> "getClip", vpId |-> vpId, val |-> getClip(f2d, vpId)]
    /\ UNCHANGED <<docVars, cfgVars, f2d>>

---------------------------------------------------------------------------
(* Document.load *)

Fn(name) == [t |-> "function", v |-> name]
Obj(name) == [t |-> "object", v |-> name]
Bool(b) == [t |-> "boolean", v |-> b]

\* typeof (v) === 'function'
IsFunction(v) == v.t = "function"

\* if (v): functions and objects pass, so do non-empty strings and true.
IsTruthy(v) ==
    \/ v.t \in {"function", "object"}
    \/ v.t = "string" /\ v.v # <<>>
    \/ v.t = "boolean" /\ v.v

\* arguments[k]
Argument(args, k) == IF k + 1 <= Len(args) THEN args[k + 1] ELSE Undefined

\* Parameters that take the callbacks from the third and fourth argument
\* whenever the second is not a function.
loadParametersShifted(args) ==
    LET deprecated == ~IsFunction(Argument(args, 1))
    IN [ onSuccessCallback |-> IF deprecated THEN Argument(args, 2)
                               ELSE Argument(args, 1),
         onErrorCallback |-> IF deprecated THEN Argument(args, 3)
                             ELSE Argument(args, 2),
         accessControlProperties |-> IF deprecated THEN Undefined
                                     ELSE Argument(args, 3) ]

\* The parameters of Document.load after the check for the deprecated
\* signature: a parameter keeps the argument at its position unless the
\* check assigns it.
loadParameters(args) ==
    LET deprecated == ~IsFunction(Argument(args, 1))
    IN [ onSuccessCallback |-> IF deprecated /\ IsFunction(Argument(args, 2))
                               THEN Argument(args, 2) ELSE Argument(args, 1),
         onErrorCallback |-> IF deprecated /\ IsFunction(Argument(args, 3))
                             THEN Argument(args, 3) ELSE Argument(args, 2),
         accessControlProperties |-> Argument(args, 3) ]

URN_COLON == <<"u", "r", "n", ":">>
SCHEME_SEPARATOR == <<":", "/", "/">>

\* window.location of the page.
Location == [protocol |-> <<"h", ":">>, host |-> <<"w">>]

\* getDocumentPath(documentId); window is undefined outside a browser.
getDocumentPath(documentId, window) ==
    IF IndexOf(documentId, URN_COLON) = -1
    THEN IF IndexOf(documentId, SCHEME_SEPARATOR) # -1 THEN documentId
         ELSE LET relativePath == IF IndexOf(documentId, SLASH) # 0
                                  THEN SLASH \o documentId ELSE documentId
              IN IF window # Undefined
                 THEN window.protocol \o <<"/", "/">> \o window.host \o relativePath
                 ELSE documentId
    ELSE documentId

\* getViewableCount(modelDocument)
getViewableCount(d) ==
    LET viewableItems == getSubItemsWithProperties(d, getRootItem,
                            [type |-> "folder", role |-> "viewable"], TRUE)
        root == IF viewableItems = <<>> THEN NoNode ELSE viewableItems[1]
        geometryItems == getSubItemsWithProperties(d, root,
                            [type |-> "geometry"], TRUE)
    IN Len(geometryItems)

\* A count of the geometry items anywhere below the root item.
getViewableCountAnywhere(d) ==
    Len(getSubItemsWithProperties(d, getRootItem, [type |-> "geometry"], TRUE))

\* traverse of getGlobalMessages: the messages of obj, then those of its
\* children from the last to the first; failed counts the nodes that hold
\* an error message.
RECURSIVE collectMessages(_, _, _)
RECURSIVE collectChildren(_, _, _, _)
collectMessages(d, obj, acc) ==
    LET messages == IF MessagesOf(obj) = Undefined THEN <<>> ELSE MessagesOf(obj).v
        errorMessages == SelectSeq(messages, LAMBDA msg : msg.type = "error")
        here == [ collected |-> acc.collected \o messages,
                  failed |-> acc.failed + (IF Len(errorMessages) > 0 THEN 1 ELSE 0) ]
    IN collectChildren(d, obj, Len(d.children[obj]), here)

collectChildren(d, obj, i, acc) ==
    IF i = 0 THEN acc
    ELSE collectChildren(d, obj, i - 1, collectMessages(d, d.children[obj][i], acc))

\* getGlobalMessages(data): every message of the tree, marked with the
\* state of the translation.  No node of the manifests here has a status.
getGlobalMessages(d) ==
    LET all == collectMessages(d, 1, [collected |-> <<>>, failed |-> 0])
        progress == IF all.failed > 0 THEN "failed" ELSE "translated"
    IN [k \in 1..Len(all.collected) |->
            [type |-> all.collected[k].type, text |-> all.collected[k].text,
             translation |-> progress]]

\* An error code: one of Error.ErrorCodes, or what ErrorHandler.getErrorCode
\* makes of the status code that follows it in the arguments.
ErrorCode(name) == [t |-> "errorCode", v |-> name]

\* A call of a user callback: nothing is invoked unless it is a function.
invoke(callback, args) ==
    IF IsFunction(callback) THEN <<[fn |-> callback.v, args |-> args]>> ELSE <<>>

\* String(data) of a manifest that arrives as an object.
OBJECT_OBJECT ==
    <<"[", "o", "b", "j", "e", "c", "t", " ", "O", "b", "j", "e", "c", "t", "]">>

SCRIPT == <<"s", "c", "r", "i", "p", "t">>

\* /<[^>]*script/.test(text)
regexTest(text) ==
    \E i \in 1..Len(text) :
        /\ text[i] = "<"
        /\ \E j \in i..(Len(text) - Len(SCRIPT)) :
              /\ MatchAt(text, SCRIPT, j)
              /\ \A k \in (i + 1)..j : text[k] # ">"

\* The text of a manifest: the name of the document between the braces;
\* the items are left out of the text.
TextOf(data) == <<"{">> \o data.name \o <<"}">>

\* What the regular expression is tested on: the string itself, or the
\* string an object is converted to.
testedText(data) == IF data.form = "string" THEN TextOf(data) ELSE OBJECT_OBJECT

\* A test of the text of the manifest in whatever form it arrives.
testedTextOfManifest(data) == TextOf(data)

\* new Document(items, documentPath, acmsession)
NewDocument(items, path, acmsession) ==
    LET acc == annotateViews(items, 1, EmptyIndex)
    IN [ t |-> "document", myPath |-> path, myData |-> traverse(items, 1),
         myViewGeometry |-> acc.vg, myNumViews |-> acc.nv,
         myPropertyDb |-> acc.db, acmSessionId |-> acmsession ]

\* An onSuccess that reports a manifest without viewables as a success.
onSuccessAlways(l, data, acmsession) ==
    IF regexTest(testedText(data))
    THEN IF IsTruthy(l.onErrorCallback)
         THEN invoke(l.onErrorCallback, <<ErrorCode("BAD_DATA")>>)
         ELSE <<>>
    ELSE LET lmvDocument == NewDocument(data.items, l.documentPath, acmsession)
         IN IF IsTruthy(l.onSuccessCallback)
            THEN invoke(l.onSuccessCallback,
                        <<lmvDocument, getGlobalMessages(lmvDocument.myData)>>)
            ELSE <<>>

\* onSuccess(data) of doLoad: the callbacks it invokes.
onSuccess(l, data, acmsession) ==
    IF regexTest(testedText(data))
    THEN IF IsTruthy(l.onErrorCallback)
         THEN invoke(l.onErrorCallback, <<ErrorCode("BAD_DATA")>>)
         ELSE <<>>
    ELSE LET lmvDocument == NewDocument(data.items, l.documentPath, acmsession)
             viewableCount == getViewableCount(lmvDocument.myData)
         IN IF viewableCount > 0
            THEN IF IsTruthy(l.onSuccessCallback)
                 THEN invoke(l.onSuccessCallback,
                             <<lmvDocument, getGlobalMessages(lmvDocument.myData)>>)
                 ELSE <<>>
            ELSE IF IsTruthy(l.onErrorCallback)
                 THEN invoke(l.onErrorCallback,
                             <<ErrorCode("BAD_DATA_NO_VIEWABLE_CONTENT"),
                               getGlobalMessages(lmvDocument.myData)>>)
                 ELSE <<>>

\* An onFailure that loads again after every 401.
onFailureRetrying(l, statusCode, data, cookie) ==
    IF statusCode = 401
    THEN [cookie |-> Bool(FALSE), refreshed |-> TRUE, again |-> TRUE, invoked |-> <<>>]
    ELSE [cookie |-> cookie, refreshed |-> FALSE, again |-> FALSE,
          invoked |-> IF IsTruthy(l.onErrorCallback)
                      THEN invoke(l.onErrorCallback,
                                  <<ErrorCode("getErrorCode"), statusCode, getGlobalMessages(data)>>)
                      ELSE <<>>]

\* An onFailure that reports the first 401 and loads again as well.
onFailureReporting(l, statusCode, data, cookie) ==
    [cookie |-> IF statusCode = 401 THEN Bool(FALSE) ELSE cookie,
     refreshed |-> statusCode = 401 /\ cookie = Undefined,
     again |-> statusCode = 401 /\ cookie = Undefined,
     invoked |-> IF IsTruthy(l.onErrorCallback)
                 THEN invoke(l.onErrorCallback,
                             <<ErrorCode("getErrorCode"), statusCode, getGlobalMessages(data)>>)
                 ELSE <<>>]

\* onFailure(statusCode, statusText, data) of doLoad: the flag after it,
\* whether it refreshes the request header and loads again, and the
\* callbacks it invokes.
onFailure(l, statusCode, data, cookie) ==
    IF statusCode = 401 /\ cookie = Undefined
    THEN [cookie |-> Bool(FALSE), refreshed |-> TRUE, again |-> TRUE, invoked |-> <<>>]
    ELSE [cookie |-> cookie, refreshed |-> FALSE, again |-> FALSE,
          invoked |-> IF IsTruthy(l.onErrorCallback)
                      THEN invoke(l.onErrorCallback,
                                  <<ErrorCode("getErrorCode"), statusCode, getGlobalMessages(data)>>)
                      ELSE <<>>]

\* A request for the manifest, as doLoad sends it.
ManifestRequest(i, acmsession) ==
    [load |-> i, what |-> "getManifest", acmsession |-> acmsession]

\* Document.load(documentId, onSuccessCallback, onErrorCallback,
\* accessControlProperties): asks for a session when there are access
\* control properties, and for the manifest otherwise.
CallLoad(inputs, limit) ==
    /\ Len(loads) < limit
    /\ \E in \in inputs :
          LET parameters == loadParameters(in.args)
              i == Len(loads) + 1
              session == IsTruthy(parameters.accessControlProperties)
          IN /\ loads' = Append(loads,
                    [ args |-> in.args,
                      onSuccessCallback |-> parameters.onSuccessCallback,
                      onErrorCallback |-> parameters.onErrorCallback,
                      accessControlProperties |-> parameters.accessControlProperties,
                      documentPath |-> getDocumentPath(in.documentId, in.window),
                      sent |-> IF session THEN 0 ELSE 1,
                      answers |-> <<>>,
                      received |-> <<>>,
                      invoked |-> <<>> ])
             /\ pending' = pending \cup
                    { IF session
                      THEN [load |-> i, what |-> "getACMSession", acmsession |-> Undefined]
                      ELSE ManifestRequest(i, Undefined) }
    /\ UNCHANGED <<docVars, offline, offlineResourcePrefix, f2d, ret,
                   LMV_THIRD_PARTY_COOKIE, requestHeader>>

\* ViewingService.getACMSession hands the session to doLoad.
SessionGranted ==
    /\ \E r \in pending :
          /\ r.what = "getACMSession"
          /\ pending' = (pending \ {r}) \cup {ManifestRequest(r.load, Str(<<"s">>))}
          /\ loads' = [loads EXCEPT ![r.load].sent = @ + 1]
    /\ UNCHANGED <<docVars, offline, offlineResourcePrefix, f2d, ret,
                   LMV_THIRD_PARTY_COOKIE, requestHeader>>

\* ViewingService.getACMSession calls the error callback it was given.
SessionRefused ==
    /\ \E r \in pending :
          /\ r.what = "getACMSession"
          /\ pending' = pending \ {r}
          /\ loads' = [loads EXCEPT ![r.load].invoked =
                          @ \o invoke(loads[r.load].onErrorCallback, <<ErrorCode("getACMSession")>>)]
    /\ UNCHANGED <<docVars, offline, offlineResourcePrefix, f2d, ret,
                   LMV_THIRD_PARTY_COOKIE, requestHeader>>

\* ViewingService.getManifest answers a request with the manifest (the
\* answer is kept as status 200).
ManifestReceived(responses) ==
    /\ \E r \in pending, data \in responses :
          /\ r.what = "getManifest"
          /\ pending' = pending \ {r}
          /\ loads' = [loads EXCEPT
                          ![r.load].answers = Append(@, 200),
                          ![r.load].received = Append(@, data),
                          ![r.load].invoked =
                              @ \o onSuccess(loads[r.load], data, r.acmsession)]
    /\ UNCHANGED <<docVars, offline, offlineResourcePrefix, f2d, ret,
                   LMV_THIRD_PARTY_COOKIE, requestHeader>>

\* ViewingService.getManifest answers a request with a failure.
ManifestFailed(statusCodes, failureData) ==
    /\ \E r \in pending, statusCode \in statusCodes :
          /\ r.what = "getManifest"
          /\ \E f \in {onFailure(loads[r.load], statusCode, failureData,
                                 LMV_THIRD_PARTY_COOKIE)} :
                /\ LMV_THIRD_PARTY_COOKIE' = f.cookie
                /\ requestHeader' = IF f.refreshed THEN Str(<<"t">>) ELSE requestHeader
                /\ pending' = IF f.again THEN pending ELSE pending \ {r}
                /\ loads' = [loads EXCEPT
                                ![r.load].answers = Append(@, statusCode),
                                ![r.load].invoked = @ \o f.invoked,
                                ![r.load].sent = IF f.again THEN @ + 1 ELSE @]
    /\ UNCHANGED <<docVars, offline, offlineResourcePrefix, f2d, ret>>

---------------------------------------------------------------------------
(* ViewerState.restoreState *)

\* A JavaScript object is a function from its keys to its values, an array
\* a sequence of its elements.
ObjectOf(f) == [t |-> "object", v |-> f]
ArrayOf(sq) == [t |-> "array", v |-> sq]
NaN == [t |-> "NaN"]

\* v instanceof Object
IsObject(v) == v.t \in {"object", "array"}

\* o[key], undefined when o has no such key.
Get(o, key) == IF key \in DOMAIN o.v THEN o.v[key] ELSE Undefined

\* o[key] = value
Put(o, key, value) ==
    [o EXCEPT !.v = [k \in DOMAIN o.v \cup {key} |->
                        IF k = key THEN value ELSE o.v[k]]]

\* The value of the digits at the beginning of s, and how many there are.
RECURSIVE leadingNumber(_, _, _)
leadingNumber(s, i, value) ==
    IF i <= Len(s) /\ \E n \in 1..10 : Digits[n] = s[i]
    THEN leadingNumber(s, i + 1,
                       value * 10 + (CHOOSE n \in 0..9 : Digits[n + 1] = s[i]))
    ELSE [count |-> i - 1, value |-> value]

\* parseFloat(v) and parseInt(v) of a number or of a string of digits and
\* letters: the number the string begins with, NaN when it begins with none.
parseFloat(v) ==
    CASE v.t = "number" -> v
      [] v.t = "string" ->
            LET n == leadingNumber(v.v, 1, 0)
            IN IF n.count = 0 THEN NaN ELSE Num(n.value)
      [] OTHER -> NaN

\* JSON.parse(JSON.stringify(v)): keys whose value is undefined are left
\* out, undefined and NaN elements of an array come back as null.
RECURSIVE jsonClone(_)
jsonClone(v) ==
    CASE v.t = "object" ->
            ObjectOf([k \in {key \in DOMAIN v.v : v.v[key].t # "undefined"} |->
                        jsonClone(v.v[k])])
      [] v.t = "array" ->
            ArrayOf([i \in DOMAIN v.v |->
                        IF v.v[i].t \in {"undefined", "NaN"} THEN Null
                        ELSE jsonClone(v.v[i])])
      [] v.t = "NaN" -> Null
      [] OTHER -> v

\* applyFilter(viewerState, filter): the object after the keys that the
\* filter does not name, or names with false, are deleted.
RECURSIVE applyFilter(_, _)
applyFilter(viewerState, filter) ==
    IF filter = Bool(TRUE) THEN viewerState
    ELSE IF viewerState.t = "array"
    THEN ArrayOf([i \in DOMAIN viewerState.v |-> Undefined])
    ELSE ObjectOf(
           [key \in {k \in DOMAIN viewerState.v :
                        /\ Get(filter, k).t # "undefined"
                        /\ Get(filter, k) # Bool(FALSE)} |->
               IF IsObject(Get(filter, key)) /\ IsObject(viewerState.v[key])
               THEN applyFilter(viewerState.v[key], Get(filter, key))
               ELSE viewerState.v[key]])

\* new THREE.Vector3().fromArray(array)
Vector3(array) == [t |-> "vector", x |-> array[1], y |-> array[2], z |-> array[3]]

\* getVector3FromArray(array, failValue): the vector, and the array after
\* its first three elements are assigned what parseFloat makes of them.
getVector3FromArray(array, failValue) ==
    IF array.t = "array" /\ Len(array.v) > 2
    THEN LET fixed == [array EXCEPT !.v[1] = parseFloat(@),
                                    !.v[2] = parseFloat(@),
                                    !.v[3] = parseFloat(@)]
         IN [val |-> Vector3(fixed.v), array |-> fixed]
    ELSE [val |-> failValue, array |-> array]

\* toIntArray(array)
toIntArray(array) ==
    IF array.t = "array" THEN [i \in DOMAIN array.v |-> parseFloat(array.v[i])]
    ELSE <<>>

\* What the navigation of the viewer holds before the call.
Navigation ==
    [ position |-> [t |-> "vector", x |-> Num(0), y |-> Num(0), z |-> Num(9)],
      up |-> [t |-> "vector", x |-> Num(0), y |-> Num(1), z |-> Num(0)],
      target |-> [t |-> "vector", x |-> Num(0), y |-> Num(0), z |-> Num(0)],
      verticalFov |-> Num(45),
      isPerspective |-> TRUE ]

\* viewer.model.getUpVector()
ModelUpVector == <<Num(0), Num(0), Num(1)>>

\* The key of obj with the array that getVector3FromArray leaves, when obj
\* has the key.
WithArray(obj, key, array) == IF key \in DOMAIN obj.v THEN Put(obj, key, array) ELSE obj

\* restoreState(viewerState, filter, immediate) on a viewer that has or has
\* not a model: the value returned, the object of the caller after the
\* call, and the selection and the camera handed to the viewer.
restoreState(viewerState, filter, hasModel) ==
    IF viewerState.t # "object" \/ ~hasModel
    THEN [val |-> FALSE, viewerState |-> viewerState,
          selection |-> Undefined, camera |-> Undefined]
    ELSE LET cloned == IsTruthy(filter) /\ filter # Bool(TRUE)
             state == IF cloned THEN applyFilter(jsonClone(viewerState), filter)
                      ELSE viewerState
             objectSet == Get(state, "objectSet")
             selectionIds == IF objectSet.t = "array" /\ Len(objectSet.v) > 0
                             THEN Get(objectSet.v[1], "id") ELSE Undefined
             viewport == Get(state, "viewport")
             eye == getVector3FromArray(Get(viewport, "eye"), Navigation.position)
             up == getVector3FromArray(Get(viewport, "up"), Navigation.up)
             target == getVector3FromArray(Get(viewport, "target"), Navigation.target)
             worldUp == getVector3FromArray(Get(viewport, "worldUpVector"), Null)
             after == WithArray(WithArray(WithArray(WithArray(viewport,
                          "eye", eye.array), "up", up.array),
                          "target", target.array), "worldUpVector", worldUp.array)
         IN [ val |-> TRUE,
              viewerState |-> IF cloned \/ viewport.t # "object" THEN viewerState
                              ELSE Put(state, "viewport", after),
              selection |-> IF selectionIds.t = "array"
                            THEN ArrayOf(toIntArray(selectionIds)) ELSE Undefined,
              camera |-> IF viewport.t # "object" THEN Undefined
                         ELSE [ position |-> eye.val, target |-> target.val,
                                up |-> up.val,
                                worldup |-> IF worldUp.val = Null
                                            THEN Vector3(ModelUpVector)
                                            ELSE worldUp.val,
                                fov |-> IF "fieldOfView" \in DOMAIN viewport.v
                                        THEN parseFloat(viewport.v["fieldOfView"])
                                        ELSE Navigation.verticalFov,
                                isPerspective |->
                                    IF "isOrthographic" \in DOMAIN viewport.v
                                    THEN ~IsTruthy(viewport.v["isOrthographic"])
                                    ELSE Navigation.isPerspective ] ]

CallRestoreState(viewerStates, filters) ==
    /\ ret = Idle
    /\ \E viewerState \in viewerStates, filter \in filters, hasModel \in BOOLEAN :
          \E r \in {restoreState(viewerState, filter, hasModel)} :
             ret' = [op |-> "restoreState", viewerState |-> viewerState,
                     filter |-> filter, hasModel |-> hasModel,
                     val |-> r.val, after |-> r.viewerState,
                     selection |-> r.selection, camera |-> r.camera]
    /\ UNCHANGED <<docVars, cfgVars, f2d>>

---------------------------------------------------------------------------
(* Specification of the Document *)

DocKinds == {"folder", "geom3d", "view", "db"}

DocPath == <<"h", "/", "d">> \o BUBBLE_JSON

\* A document with no drawing loaded.
NoModel == [viewports |-> <<>>]

\* The variables of a constructed document that holds one folder.
\* No load has been started.
NoLoads ==
    /\ LMV_THIRD_PARTY_COOKIE = Undefined
    /\ requestHeader = Undefined
    /\ loads = <<>>
    /\ pending = {}

\* The document of a one-node manifest.
OneNodeDocument ==
    /\ myData = traverse(Manifest(1, <<0>>, <<"folder">>), 1)
    /\ myViewGeometry = EmptyIndex.vg
    /\ myNumViews = EmptyIndex.nv
    /\ myPropertyDb = EmptyIndex.db
    /\ built = TRUE

LoadedDocument == OneNodeDocument /\ NoLoads

InitDoc(rootKinds, kindSet) ==
    /\ \E n \in 1..MaxNodes :
         \E pv \in ParentVectors(n) :
           \E kinds \in [1..n -> kindSet \cup rootKinds] :
             /\ kinds[1] \in rootKinds
             /\ \A i \in 2..n : kinds[i] \in kindSet
             /\ myData = Manifest(n, pv, kinds)
    /\ myPath = DocPath
    /\ myViewGeometry = EmptyIndex.vg
    /\ myNumViews = EmptyIndex.nv
    /\ myPropertyDb = EmptyIndex.db
    /\ built = FALSE
    /\ NoLoads
    /\ offline = FALSE
    /\ offlineResourcePrefix = <<>>
    /\ f2d = NoModel
    /\ ret = Idle

Init == InitDoc(DocKinds, DocKinds)

Next ==
    \/ Construct
    \/ CallGetViewGeometry
    \/ CallGetNumViews
    \/ CallGetPropertyDbPath
    \/ CallGetItemById
    \/ CallGetMessages
    \/ CallGetSubItems
    \/ Return

Spec == Init /\ [][Next]_vars

---------------------------------------------------------------------------
(* Specification of the viewable paths: manifests of one geometry item and
   the resources and views below it *)

GeometryKinds == {"geom2d", "geom3d", "geomX"}
ResourceKinds == {"leaflet", "zip", "f2d", "svf", "tileRoot", "view"}

InitViewable == InitDoc(GeometryKinds, ResourceKinds)

NextViewable ==
    \/ Construct
    \/ CallGetViewablePath
    \/ CallGetViewGeometry
    \/ CallGetNumViews
    \/ CallGetThumbnailPath
    \/ Return

SpecViewable == InitViewable /\ [][NextViewable]_vars

---------------------------------------------------------------------------
(* Specification of the full paths: one constructed document under every
   configuration, getFullPath applied to a urn and to its own result *)

\* Largest number of pieces a urn is put together from.
MaxPieces == 3

UrnPieces == {URN, <<":">>, SLASH, <<"a">>, FILE_MARKER}

RECURSIVE UrnsOf(_)
UrnsOf(k) ==
    IF k = 0 THEN {<<>>}
    ELSE LET shorter == UrnsOf(k - 1)
         IN shorter \cup {u \o p : u \in shorter, p \in UrnPieces}

UrnInputs == {Str(u) : u \in UrnsOf(MaxPieces)} \cup {Undefined, Null}

Prefixes == { <<>>, <<"l">>, <<"l", "/", "r">>, <<"l", "%", "2", "F", "r">>,
              <<"l", "%">> }

DocPaths == { DocPath,
              <<"h">> \o BUBBLE_JSON \o <<"/", "x">>,
              URN \o <<":", "d">> }

InitPath ==
    /\ LoadedDocument
    /\ myPath \in DocPaths
    /\ offline \in BOOLEAN
    /\ offlineResourcePrefix \in Prefixes
    /\ f2d = NoModel
    /\ ret = Idle

NextPath ==
    \/ CallGetFullPath(UrnInputs)
    \/ CallGetFullPathAgain
    \/ Return

SpecPath == InitPath /\ [][NextPath]_vars


---------------------------------------------------------------------------
(* Specification of the viewport transforms: a drawing with the paper
   viewport 0, a viewport 1 and a viewport 2 whose raw transform is that of
   viewport 1 with its first two rows exchanged *)

\* The rows a raw transform is put together from, in units.
TransformRows ==
    { <<2 * precision, 0, 0, 0>>,
      <<0, 2 * precision, 0, 0>>,
      <<0, 0, 2 * precision, 0>>,
      <<2 * precision, precision, 0, 0>>,
      <<-2 * precision, 2 * precision + 1, 0, 0>>,
      <<precision, 2 * precision, 0, 0>>,
      <<precision - 1, 2 * precision, 0, 0>> }

LastRow == <<3, 4, 0, UnitsPerOne>>

RawTransforms ==
    {r0 \o r1 \o r2 \o LastRow : r0 \in TransformRows, r1 \in TransformRows,
                                 r2 \in TransformRows}

PaperTransform == Elements16([k \in 1..16 |-> 2 * precision * IdentityElements[k]])

PageDimensions ==
    { [page_width |-> 2, page_height |-> 4, logical_width |-> 8,
       logical_height |-> 4, logical_offset_x |-> 1, logical_offset_y |-> -1] }

UnitSquareClip == [contourCounts |-> <<4>>, points |-> <<0, 0, 2, 0, 2, 2, 0, 2>>]

Drawing(transform, pd, clips) ==
    [ metadata |-> [page_dimensions |-> pd],
      viewports |-> [i \in 0..2 |->
                        [transform |-> CASE i = 0 -> PaperTransform
                                         [] i = 1 -> transform
                                         [] OTHER -> SwapFour(transform, 0, 4)]],
      clips |-> clips,
      pageToModelTransform |-> Undefined,
      viewportTransforms |-> Undefined ]

\* A transform that the data brings along as pageToModelTransform.
OwnTransform ==
    [num |-> <<3, 0, 0, 0,  0, 3, 0, 0,  0, 0, 1, 0,  5, 7, 0, 1>>, den |-> 1]

OwnTransforms == {Undefined, OwnTransform}

ThreeClips == <<UnitSquareClip, UnitSquareClip, UnitSquareClip>>

\* The drawings a model starts with: the cache is not there yet.
Drawings ==
    {[Drawing(transform, pd, ThreeClips) EXCEPT !.pageToModelTransform = own] :
        transform \in RawTransforms, pd \in PageDimensions, own \in OwnTransforms}

\* The drawings setData replaces the data with.
Replacements ==
    {d \in Drawings :
        /\ d.pageToModelTransform = Undefined
        /\ d.viewports[1].transform[1] = 2 * precision
        /\ d.viewports[1].transform[6] = 2 * precision
        /\ d.viewports[1].transform[11] = 2 * precision}

InitTransform ==
    /\ LoadedDocument
    /\ myPath = DocPath
    /\ offline = FALSE
    /\ offlineResourcePrefix = <<>>
    /\ f2d \in Drawings
    /\ ret = Idle

\* The pairs of points that are converted: inside and outside the clips,
\* with and without a height.
PagePoints ==
    { << [x |-> 1, y |-> 1, z |-> 5], [x |-> 3, y |-> -1, z |-> 0] >>,
      << [x |-> 3, y |-> -1, z |-> 5], [x |-> 1, y |-> 1, z |-> 0] >> }

NextTransform ==
    \/ CallGetPageToModelTransform
    \/ CallPageToModel(PagePoints)
    \/ CallSetData(Replacements)
    \/ Return

SpecTransform == InitTransform /\ [][NextTransform]_vars

---------------------------------------------------------------------------
(* Specification of the clip regions: a drawing whose clip table is put
   together from a few regions, queried at the points of a grid *)

\* Largest number of clips besides that of the paper viewport.
MaxClips == 3

\* Largest coordinate of a query point.
MaxCoord == 3

ClipRegions ==
    { UnitSquareClip,
      \* a triangle
      [contourCounts |-> <<3>>, points |-> <<1, 1, 3, 1, 1, 3>>],
      \* a square with a square hole
      [contourCounts |-> <<4, 4>>,
       points |-> <<0, 0, 3, 0, 3, 3, 0, 3,  1, 1, 2, 1, 2, 2, 1, 2>>],
      \* no contour at all
      [contourCounts |-> <<>>, points |-> <<>>],
      \* a contour of no points
      [contourCounts |-> <<0>>, points |-> <<>>] }

RECURSIVE ClipTables(_)
ClipTables(k) ==
    IF k = 0 THEN {<<UnitSquareClip>>}
    ELSE LET shorter == ClipTables(k - 1)
         IN shorter \cup {t \o <<c>> : t \in {u \in shorter : Len(u) = k},
                                       c \in ClipRegions}

QueryPoints == {[x |-> x, y |-> y, z |-> 0] : x \in -1..MaxCoord, y \in 0..MaxCoord}

InitClip ==
    /\ LoadedDocument
    /\ myPath = DocPath
    /\ offline = FALSE
    /\ offlineResourcePrefix = <<>>
    /\ \E clips \in ClipTables(MaxClips), pd \in PageDimensions :
          f2d = Drawing(PaperTransform, pd, clips)
    /\ ret = Idle

NextClip ==
    \/ CallPointInClip(QueryPoints)
    \/ CallGetClip
    \/ Return

SpecClip == InitClip /\ [][NextClip]_vars

---------------------------------------------------------------------------
(* Specification of pointInPolygon: polygons put together from a few rings,
   queried at the points of a grid.  Coordinates are counted in halves, so
   that the unit square is the ring from (0,0) to (2,2) and (0.5,0.5) is the
   grid point (1,1). *)

\* Largest number of contours of a polygon.
MaxContours == 3

\* Largest coordinate of a grid point, in halves.
MaxXY == 7

Vertex(x, y) == [x |-> x, y |-> y]

\* The ring of the axis-aligned square from (lo, lo) to (hi, hi),
\* counter-clockwise or clockwise.
SquareRing(lo, hi, ccw) ==
    IF ccw THEN <<Vertex(lo, lo), Vertex(hi, lo), Vertex(hi, hi), Vertex(lo, hi)>>
    ELSE <<Vertex(lo, hi), Vertex(hi, hi), Vertex(hi, lo), Vertex(lo, lo)>>

UnitSquareRing == SquareRing(0, 2, TRUE)

SquareRings ==
    { UnitSquareRing, SquareRing(0, 6, TRUE), SquareRing(1, 5, FALSE),
      SquareRing(2, 4, TRUE) }

Rings ==
    SquareRings \cup
        { <<Vertex(0, 0), Vertex(6, 0), Vertex(0, 6)>>,   \* a triangle
          <<>> }                                           \* no point at all

RECURSIVE RingLists(_)
RingLists(k) ==
    IF k = 0 THEN {<<>>}
    ELSE LET shorter == RingLists(k - 1)
         IN shorter \cup {l \o <<r>> : l \in {u \in shorter : Len(u) = k - 1},
                                       r \in Rings}

RECURSIVE Flatten(_)
Flatten(rings) ==
    IF rings = <<>> THEN <<>> ELSE Head(rings) \o Flatten(Tail(rings))

\* The contours and points arguments that hold the rings one after another.
PolygonOf(rings) ==
    [ contours |-> contoursOf([k \in 1..Len(rings) |-> Len(rings[k])], 1, 0),
      points |-> Flatten(rings) ]

Polygons == {PolygonOf(rings) : rings \in RingLists(MaxContours)}

GridPoints == {Vertex(x, y) : x \in -1..MaxXY, y \in -1..MaxXY}

InitPolygon ==
    /\ LoadedDocument
    /\ myPath = DocPath
    /\ offline = FALSE
    /\ offlineResourcePrefix = <<>>
    /\ f2d = NoModel
    /\ ret = Idle

NextPolygon ==
    \/ CallPointInPolygon(Polygons, GridPoints)
    \/ Return

SpecPolygon == InitPolygon /\ [][NextPolygon]_vars

---------------------------------------------------------------------------
(* Specification of Document.load: a few loads, whose requests the
   transport answers one by one with a manifest or with a failure *)

\* Largest number of calls of Document.load.
MaxLoads == 2

onSuccessCallback == Fn("onSuccessCallback")
onErrorCallback == Fn("onErrorCallback")

\* The calls: both callbacks; no error callback; access control
\* properties; the deprecated signature with both callbacks and with the
\* error callback missing.
LoadInputs ==
    { [args |-> <<Str(<<"u", "r", "n", ":", "x">>), onSuccessCallback, onErrorCallback>>,
       documentId |-> <<"u", "r", "n", ":", "x">>, window |-> Location],
      [args |-> <<Str(<<"d">>), onSuccessCallback>>,
       documentId |-> <<"d">>, window |-> Location],
      [args |-> <<Str(<<"/", "d">>), onSuccessCallback, onErrorCallback, Obj("acp")>>,
       documentId |-> <<"/", "d">>, window |-> Undefined],
      [args |-> <<Str(<<"h", ":", "/", "/", "d">>), Obj("auth"), onSuccessCallback,
                  onErrorCallback>>,
       documentId |-> <<"h", ":", "/", "/", "d">>, window |-> Location],
      [args |-> <<Str(<<"d">>), Obj("auth"), onSuccessCallback>>,
       documentId |-> <<"d">>, window |-> Undefined] }

\* Manifests: a geometry below the viewable folder; no folder below the
\* root; a first viewable folder without geometry beside a second one with
\* a geometry.
Viewable3d == Manifest(3, <<0, 1, 2>>, <<"folder", "folder", "geom3d">>)
NoFolder == Manifest(2, <<0, 1>>, <<"folder", "geom3d">>)
SecondFolder == Manifest(4, <<0, 1, 1, 3>>, <<"folder", "folder", "folder", "geom3d">>)

PlainName == <<"a">>
ScriptName == <<"<", "s", "c", "r", "i", "p", "t", ">">>
ClosedTagName == <<"<", "b", ">", "s", "c", "r", "i", "p", "t">>

\* What the transport delivers: the manifest as a string or as an object.
Responses ==
    { [form |-> "string", name |-> PlainName, items |-> Viewable3d],
      [form |-> "string", name |-> ScriptName, items |-> Viewable3d],
      [form |-> "string", name |-> ClosedTagName, items |-> SecondFolder],
      [form |-> "object", name |-> PlainName, items |-> NoFolder],
      [form |-> "object", name |-> ScriptName, items |-> Viewable3d] }

StatusCodes == {401, 404}

\* The object that comes with a failure.
FailureData == Manifest(1, <<0>>, <<"folder">>)

InitLoad ==
    /\ OneNodeDocument
    /\ myPath = DocPath
    /\ offline = FALSE
    /\ offlineResourcePrefix = <<>>
    /\ f2d = NoModel
    /\ ret = Idle
    /\ LMV_THIRD_PARTY_COOKIE \in {Undefined, Bool(TRUE)}
    /\ requestHeader = Undefined
    /\ loads = <<>>
    /\ pending = {}

NextLoad ==
    \/ CallLoad(LoadInputs, MaxLoads)
    \/ SessionGranted
    \/ SessionRefused
    \/ ManifestReceived(Responses)
    \/ ManifestFailed(StatusCodes, FailureData)

SpecLoad == InitLoad /\ [][NextLoad]_vars

---------------------------------------------------------------------------
(* Specification of ViewerState.restoreState: viewer states whose vectors
   hold numbers or strings of numbers, restored with and without a filter *)

\* The arrays a vector of a viewer state is given as: numbers, strings of
\* numbers, a string that is no number, too few elements.
VectorArrays ==
    { ArrayOf(<<Num(1), Num(2), Num(3)>>),
      ArrayOf(<<Str(<<"1">>), Str(<<"2", "5">>), Num(3)>>),
      ArrayOf(<<Str(<<"x">>), Num(0), Str(<<"7", "m">>)>>),
      ArrayOf(<<Num(1), Num(2)>>) }

ObjectSets ==
    { Undefined,
      ArrayOf(<<ObjectOf([id |-> ArrayOf(<<Str(<<"4">>), Num(5)>>)])>>) }

\* The viewer states: none, one without viewport, and viewports with their
\* vectors, with and without a world up vector and a field of view.
ViewerStates ==
    { Null, ObjectOf([seedURN |-> Str(<<"u">>)]) }
    \cup { ObjectOf([seedURN |-> Str(<<"u">>), objectSet |-> objectSet,
                     viewport |-> ObjectOf([eye |-> eye, up |-> up,
                                            target |-> target])]) :
             eye \in VectorArrays, up \in VectorArrays, target \in VectorArrays,
             objectSet \in ObjectSets }
    \cup { ObjectOf([viewport |-> ObjectOf([eye |-> eye, worldUpVector |-> worldUp,
                                            fieldOfView |-> Str(<<"3", "0">>),
                                            isOrthographic |-> Bool(TRUE)])]) :
             eye \in VectorArrays, worldUp \in VectorArrays }

\* No filter, the filter for everything, and filters that keep the
\* viewport, only its eye, or only the object set.
StateFilters ==
    { Undefined, Bool(TRUE),
      ObjectOf([viewport |-> Bool(TRUE), seedURN |-> Bool(FALSE)]),
      ObjectOf([viewport |-> ObjectOf([eye |-> Bool(TRUE)])]),
      ObjectOf([objectSet |-> Bool(TRUE)]) }

InitState ==
    /\ LoadedDocument
    /\ myPath = DocPath
    /\ offline = FALSE
    /\ offlineResourcePrefix = <<>>
    /\ f2d = NoModel
    /\ ret = Idle

NextState ==
    \/ CallRestoreState(ViewerStates, StateFilters)
    \/ Return

SpecState == InitState /\ [][NextState]_vars

---------------------------------------------------------------------------
(* What the manifest tree says, read off the children sequences alone *)

Range(sq) == {sq[k] : k \in 1..Len(sq)}

\* The node whose children sequence holds i; NoNode for the root.
StructParent(d, i) ==
    IF \E p \in Nodes(d) : i \in Range(d.children[p])
    THEN CHOOSE p \in Nodes(d) : i \in Range(d.children[p])
    ELSE NoNode

RECURSIVE ProperAncestors(_, _)
ProperAncestors(d, i) ==
    LET p == StructParent(d, i)
    IN IF p = NoNode THEN {} ELSE {p} \cup ProperAncestors(d, p)

\* item followed by its ancestors, up to the root.
RECURSIVE PathToRoot(_, _)
PathToRoot(d, i) ==
    IF i = NoNode THEN <<>> ELSE <<i>> \o PathToRoot(d, StructParent(d, i))

\* The nodes of the subtree of i in pre-order.
RECURSIVE PreOrder(_, _)
RECURSIVE PreOrderOfChildren(_, _, _)
PreOrder(d, i) == <<i>> \o PreOrderOfChildren(d, i, 1)

PreOrderOfChildren(d, i, k) ==
    IF k > Len(d.children[i]) THEN <<>>
    ELSE PreOrder(d, d.children[i][k]) \o PreOrderOfChildren(d, i, k + 1)

ViewChildCount(d, i) ==
    Cardinality({k \in 1..Len(d.children[i]) : TypeOf(d, d.children[i][k]) = "view"})

IsDbNode(d, i) == MimeOf(d, i) = MIME_DB /\ Truthy(UrnOfNode(d, i))
IsGeometryWithChildren(d, i) ==
    TypeOf(d, i) = "geometry" /\ Len(d.children[i]) > 0

\* The nodes annotateViews reaches: those below no geometry node and below
\* no property-database node.
Reached(d, i) ==
    \A a \in ProperAncestors(d, i) :
        ~IsGeometryWithChildren(d, a) /\ ~IsDbNode(d, a)

\* The property-database nodes that annotateViews records.
RecordedDbNodes(d) ==
    {i \in Nodes(d) :
        IsDbNode(d, i) /\ ~IsGeometryWithChildren(d, i) /\ Reached(d, i)}

AllDbNodes(d) == {i \in Nodes(d) : IsDbNode(d, i)}

MinOf(S) == CHOOSE x \in S : \A y \in S : x <= y
MaxOf(S) == CHOOSE x \in S : \A y \in S : x >= y

RECURSIVE MessagesAlong(_)
MessagesAlong(path) ==
    IF path = <<>> THEN <<>>
    ELSE LET m == MessagesOf(Head(path))
         IN (IF m.t = "list" THEN m.v ELSE <<>>) \o MessagesAlong(Tail(path))

---------------------------------------------------------------------------
(* Claims about the Document *)

\* C2 (as claimed): getNumViews of every geometry node, wherever it sits in
\* the tree, is the number of its direct children of type view.
C2_ViewCountOfEveryGeometry ==
    (ret.op = "getNumViews" /\ ret.item # NoNode
        /\ TypeOf(myData, ret.item) = "geometry")
        => ret.val = Num(ViewChildCount(myData, ret.item))

\* C3 (as claimed): the property-database path comes from the first node in
\* pre-order with mime application/autodesk-db and a non-empty urn; it is
\* null when there is none.
C3_FirstDbNodeWins ==
    built =>
        myPropertyDb =
            IF AllDbNodes(myData) = {} THEN Null
            ELSE Str(PropertyDbOf(UrnOfNode(myData, MinOf(AllDbNodes(myData))).v))

\* C3 (amended): the property-database path comes from the last node in
\* pre-order among the property-database nodes the constructor reaches
\* (those below no geometry node with children and below no other
\* property-database node): every later match overwrites the earlier one.
\* It is null when the constructor reaches none.
C3_LastReachedDbNodeWins ==
    built =>
        myPropertyDb =
            IF RecordedDbNodes(myData) = {} THEN Null
            ELSE Str(PropertyDbOf(UrnOfNode(myData, MaxOf(RecordedDbNodes(myData))).v))

\* C3 witness: a constructed document with two recorded property-database
\* nodes of different paths, holding the path of the later one.
C3_Witness ==
    /\ built
    /\ \E i, j \in RecordedDbNodes(myData) :
         /\ i < j
         /\ j = MaxOf(RecordedDbNodes(myData))
         /\ PropertyDbOf(UrnOfNode(myData, i).v) # PropertyDbOf(UrnOfNode(myData, j).v)
         /\ myPropertyDb = Str(PropertyDbOf(UrnOfNode(myData, j).v))

\* C4 (as claimed): getMessages returns the messages of the node and of its
\* ancestors in node-to-root order, without the root's own messages when
\* excludeGlobal is set, and nothing for a null node.
C4_MessagesNodeToRoot ==
    ret.op = "getMessages" =>
        ret.val =
            LET path == PathToRoot(myData, ret.item)
            IN List(MessagesAlong(
                    IF ret.excludeGlobal
                    THEN SelectSeq(path, LAMBDA i : i # getRootItem)
                    ELSE path))

\* C7: after construction every non-root node has a parent reference, which
\* is the one node whose children sequence holds it; the root has none.
C7_ParentIsUniqueHolder ==
    built =>
        \A i \in Nodes(myData) :
            IF i = getRootItem THEN myData.parent[i] = NoNode
            ELSE /\ myData.parent[i] \in Nodes(myData)
                 /\ i \in Range(myData.children[myData.parent[i]])
                 /\ \A p \in Nodes(myData) :
                       i \in Range(myData.children[p]) => p = myData.parent[i]

\* C7 witness: a constructed tree with a node two levels below the root.
C7_Witness ==
    /\ built
    /\ \E i \in Nodes(myData) :
         /\ myData.parent[i] # NoNode
         /\ myData.parent[myData.parent[i]] = 2
         /\ myData.parent[2] = getRootItem

\* C8: on the constructed tree getItemById ends without exhausting the
\* stack, returns the node that carries the guid when one does, and null
\* when none does.
C8_GetItemByIdFindsGuid ==
    (ret.op = "getItemById" /\ built) =>
        IF \E i \in Nodes(myData) : GuidOf(i) = ret.id
        THEN ret.val = Node(CHOOSE i \in Nodes(myData) : GuidOf(i) = ret.id)
        ELSE ret.val = Null

\* C8 witness: a guid found three levels below the root, on a tree whose
\* nodes carry parent references.
C8_Witness ==
    /\ ret.op = "getItemById" /\ built
    /\ ret.val.t = "node"
    /\ Len(PathToRoot(myData, ret.val.v)) = 4
    /\ myData.parent[ret.val.v] # NoNode

\* C9: a recursive getSubItemsWithProperties returns the strict descendants
\* of the node that match the filter, each once, in pre-order; nothing for
\* a null node.
C9_SubItemsArePreOrderMatches ==
    (ret.op = "getSubItemsWithProperties" /\ ret.recursive) =>
        ret.val =
            IF ret.item = NoNode THEN <<>>
            ELSE SelectSeq(Tail(PreOrder(myData, ret.item)),
                           LAMBDA j : hasProperties(myData, j, ret.properties))

\* C9 witness: a recursive search that returns a match lying beneath a
\* child that does not match, after an earlier match.
C9_Witness ==
    /\ ret.op = "getSubItemsWithProperties" /\ ret.recursive
    /\ ret.item # NoNode
    /\ Len(ret.val) >= 2
    /\ \E k \in 1..Len(ret.val) :
         /\ StructParent(myData, ret.val[k]) # ret.item
         /\ ~hasProperties(myData, StructParent(myData, ret.val[k]), ret.properties)

---------------------------------------------------------------------------
(* Claims about path resolution *)

StartsWith(s, pat) == IndexOf(s, pat) = 0

\* The direct children of item that have the properties.
DirectChildrenWith(d, item, properties) ==
    SelectSeq(d.children[item], LAMBDA c : hasProperties(d, c, properties))

\* A geometry item with role 2d, a direct leaflet child and a direct child
\* with the vector-drawing mime, asked for its path with load options.
C1_Case ==
    /\ ret.op = "getViewablePath" /\ ret.hasOut /\ ret.item # NoNode
    /\ TypeOf(myData, ret.item) = "geometry" /\ RoleOf(myData, ret.item) = "2d"
    /\ DirectChildrenWith(myData, ret.item, [role |-> "leaflet"]) # <<>>
    /\ DirectChildrenWith(myData, ret.item, [mime |-> MIME_F2D]) # <<>>

\* The load options hold what the leaflet resource states.
PopulatedFrom(out, leaflet) ==
    /\ out.urlPattern = UrnOfNode(myData, leaflet)
    /\ out.tileSize = (IF LeafletTileSize(leaflet) = Undefined THEN Num(512)
                       ELSE LeafletTileSize(leaflet))
    /\ out.texWidth = Num(LeafletResolution(leaflet)[1])
    /\ out.texHeight = Num(LeafletResolution(leaflet)[2])
    /\ out.paperWidth = Num(LeafletPaper(leaflet).width)
    /\ out.paperHeight = Num(LeafletPaper(leaflet).height)
    /\ out.paperUnits = Str(LeafletPaper(leaflet).units)

\* C1 (as claimed): with a leaflet child and a vector-drawing child, the
\* load options are populated from the leaflet child and the path returned
\* is the full path of the vector drawing's urn.
C1_ReturnsVectorPath ==
    C1_Case =>
        LET leaflet == DirectChildrenWith(myData, ret.item, [role |-> "leaflet"])[1]
            vector == DirectChildrenWith(myData, ret.item, [mime |-> MIME_F2D])[1]
        IN /\ PopulatedFrom(ret.out, leaflet)
           /\ ret.val = getFullPath(UrnOfNode(myData, vector))

\* C1 (amended): with a leaflet child and a vector-drawing child, the load
\* options are populated from the first leaflet child and the path returned
\* is the full path of that leaflet child's urn: the vector drawing is
\* looked for only when there is no leaflet child.
C1_ReturnsLeafletPath ==
    C1_Case =>
        LET leaflet == DirectChildrenWith(myData, ret.item, [role |-> "leaflet"])[1]
        IN /\ PopulatedFrom(ret.out, leaflet)
           /\ ret.val = getFullPath(UrnOfNode(myData, leaflet))

\* C1 witness: the call was made on such an item whose vector drawing
\* comes before its leaflet, and returned the leaflet's path.
C1_Witness ==
    /\ C1_Case
    /\ LET leaflet == DirectChildrenWith(myData, ret.item, [role |-> "leaflet"])[1]
           vector == DirectChildrenWith(myData, ret.item, [mime |-> MIME_F2D])[1]
       IN /\ vector < leaflet
          /\ ret.val = UrnOfNode(myData, leaflet)
          /\ ret.out.urlPattern = UrnOfNode(myData, leaflet)

\* A urn that starts with neither urn: nor $file$, resolved twice.
C5_Case ==
    /\ ret.op = "getFullPathAgain"
    /\ ret.urn.t = "string"
       => /\ ~StartsWith(ret.urn.v, URN \o <<":">>)
          /\ ~StartsWith(ret.urn.v, FILE_MARKER)

\* C5 (as claimed): in every configuration getFullPath is idempotent on the
\* urns that start with neither urn: nor $file$.
C5_IdempotentEverywhere ==
    C5_Case => ret.val = ret.first

\* The decoded local resource prefix holds no separator.
FlatPrefix ==
    LET prefix == decodeURIComponent(offlineResourcePrefix)
    IN prefix.t = "string" /\ IndexOf(prefix.v, SLASH) = -1

\* C5 (amended): getFullPath is idempotent on the urns that start with
\* neither urn: nor $file$ when offline mode is off, and in offline mode
\* when the decoded local resource prefix holds no "/".
C5_IdempotentOnlineOrFlatPrefix ==
    (C5_Case /\ (~offline \/ FlatPrefix)) => ret.val = ret.first

\* C5 witness: in offline mode with a prefix without separator, a urn with
\* a separator was rewritten and the second resolution changed nothing.
C5_Witness ==
    /\ C5_Case /\ offline /\ FlatPrefix
    /\ offlineResourcePrefix # <<>>
    /\ ret.urn.t = "string" /\ IndexOf(ret.urn.v, SLASH) > 0
    /\ ret.first # ret.urn
    /\ ret.val = ret.first

---------------------------------------------------------------------------
(* C6: the transform of a viewport whose first two rows are exchanged *)

\* Both viewport 1 and its twin, viewport 2, have their transform cached.
C6_BothComputed ==
    /\ f2d.viewportTransforms # Undefined
    /\ f2d.viewportTransforms.v[1] # Undefined
    /\ f2d.viewportTransforms.v[2] # Undefined

\* The twin's array is repaired to M and the two cached transforms agree.
C6_RepairedToSame ==
    /\ repairViewportMatrix(f2d.viewports[2].transform) = f2d.viewports[1].transform
    /\ f2d.viewportTransforms.v[2] = f2d.viewportTransforms.v[1]

\* M of viewport 1 is correctly ordered and viewport 2 holds M with rows 0
\* and 1 exchanged.
C6_Case ==
    LET M == f2d.viewports[1].transform
    IN /\ f2d.viewports[2].transform = SwapFour(M, 0, 4)
       /\ Abs(El(M, 0)) >= precision
       /\ Abs(El(M, 5)) >= precision

---------------------------------------------------------------------------
(* C10: pointInClip and the viewport of the point *)

\* C10: whatever the point, the clip table and the viewport id asked with,
\* the list of ids pointInClip returns does not contain that viewport id.
C10_NeverOwnViewport ==
    (ret.op = "pointInClip" /\ ret.val.t = "list")
        => \A k \in 1..Len(ret.val.v) : Num(ret.val.v[k]) # ret.vpId

\* pointInClip was asked with the id of a clip that contains the point,
\* and returned the ids of other clips.
C10_Witness ==
    /\ ret.op = "pointInClip"
    /\ ret.val.t = "list"
    /\ ret.val.v # <<>>
    /\ ret.vpId.t = "number"
    /\ ret.vpId.v \in 1..(Len(f2d.clips) - 1)
    /\ LET own == f2d.clips[ret.vpId.v + 1]
       IN pointInPolygon(ret.point.x, ret.point.y,
                         contoursOf(own.contourCounts, 1, 0),
                         pointsOf(own.points)) = [t |-> "boolean", v |-> TRUE]

---------------------------------------------------------------------------
(* C11: what pointInClip returns *)

\* The decoded region of clip i contains the point, by pointInPolygon:
\* a boolean, or the failure raised.
RegionContains(clips, i, point) ==
    pointInPolygon(point.x, point.y,
                   contoursOf(clips[i + 1].contourCounts, 1, 0),
                   pointsOf(clips[i + 1].points))

\* The ids pointInClip looks at: every clip id from 1 but vpId.
OtherClipIds(clips, vpId) == {i \in 1..(Len(clips) - 1) : Num(i) # vpId}

StrictlyAscending(sq) == \A j \in 1..(Len(sq) - 1) : sq[j] < sq[j + 1]

\* C11: pointInClip(point, vpId) returns exactly the ids i with
\* 1 <= i < number of clips and i # vpId whose decoded region contains the
\* point by pointInPolygon, each once, in strictly ascending order, and
\* never id 0; it returns a list unless the test of one of these regions
\* raises.
C11_ExactlyContainingClips ==
    ret.op = "pointInClip" =>
        LET others == OtherClipIds(f2d.clips, ret.vpId)
            raises == \E i \in others :
                         RegionContains(f2d.clips, i, ret.point).t = "throw"
        IN /\ (ret.val.t = "list") = ~raises
           /\ ret.val.t = "list" =>
                 /\ Range(ret.val.v) =
                      {i \in others :
                          RegionContains(f2d.clips, i, ret.point).v}
                 /\ StrictlyAscending(ret.val.v)
                 /\ 0 \notin Range(ret.val.v)

\* pointInClip returned two ids or more and left out a clip that does not
\* contain the point, for a point that the paper clip 0 contains.
C11_Witness ==
    /\ ret.op = "pointInClip"
    /\ ret.val.t = "list"
    /\ Len(ret.val.v) >= 2
    /\ RegionContains(f2d.clips, 0, ret.point).v
    /\ \E i \in OtherClipIds(f2d.clips, ret.vpId) :
          ~RegionContains(f2d.clips, i, ret.point).v

---------------------------------------------------------------------------
(* C12, C13: pointInPolygon *)

\* The vertices of contour cntr.
VerticesOf(cntr, points) == [j \in 1..Len(cntr) |-> points[cntr[j] + 1]]

\* The contour is one of the square rings.
IsSquare(cntr, points) == VerticesOf(cntr, points) \in SquareRings

\* The point lies strictly inside, or strictly outside, the axis-aligned
\* square spanned by the vertices vs.
XsOf(vs) == {vs[j].x : j \in 1..Len(vs)}
YsOf(vs) == {vs[j].y : j \in 1..Len(vs)}

StrictlyInside(x, y, vs) ==
    /\ \E a \in XsOf(vs) : a < x
    /\ \E a \in XsOf(vs) : a > x
    /\ \E b \in YsOf(vs) : b < y
    /\ \E b \in YsOf(vs) : b > y

StrictlyOutside(x, y, vs) ==
    \/ \A a \in XsOf(vs) : a > x
    \/ \A a \in XsOf(vs) : a < x
    \/ \A b \in YsOf(vs) : b > y
    \/ \A b \in YsOf(vs) : b < y

Odd(n) == n % 2 = 1

\* C12: pointInPolygon is true exactly when the point is inside an odd
\* number of the contours, each contour tested by ray crossing: for nested
\* squares that the point is strictly inside or strictly outside of, inside
\* one is true, inside two is false, inside three is true again; with no
\* contour the result is false.
C12_OddNumberOfContours ==
    (ret.op = "pointInPolygon" /\ ret.val.t = "boolean") =>
        LET ids == 1..Len(ret.contours)
            holding == {i \in ids :
                          pointInContour(ret.x, ret.y, ret.contours[i],
                                         ret.points).v}
            within == {i \in ids :
                          StrictlyInside(ret.x, ret.y,
                                         VerticesOf(ret.contours[i], ret.points))}
            clear == \A i \in ids :
                        /\ IsSquare(ret.contours[i], ret.points)
                        /\ \/ i \in within
                           \/ StrictlyOutside(ret.x, ret.y,
                                   VerticesOf(ret.contours[i], ret.points))
        IN /\ ret.val.v = Odd(Cardinality(holding))
           /\ clear => ret.val.v = Odd(Cardinality(within))
           /\ ids = {} => ret.val.v = FALSE

\* pointInPolygon returned false for a point strictly inside two nested
\* squares.
C12_Witness ==
    /\ ret.op = "pointInPolygon"
    /\ ret.val = [t |-> "boolean", v |-> FALSE]
    /\ Len(ret.contours) = 2
    /\ VerticesOf(ret.contours[1], ret.points) # VerticesOf(ret.contours[2], ret.points)
    /\ \A i \in 1..2 :
          /\ IsSquare(ret.contours[i], ret.points)
          /\ StrictlyInside(ret.x, ret.y, VerticesOf(ret.contours[i], ret.points))

\* C13: with the single contour of the unit square, pointInPolygon is true
\* at (0.5, 0.5) and false at (2, 2) (the grid points (1, 1) and (4, 4) in
\* halves); with a single axis-aligned square contour it is true at every
\* point strictly inside and false at every point strictly outside.
C13_SquareInsideOutside ==
    (ret.op = "pointInPolygon" /\ Len(ret.contours) = 1
        /\ IsSquare(ret.contours[1], ret.points)) =>
        LET vs == VerticesOf(ret.contours[1], ret.points)
        IN /\ StrictlyInside(ret.x, ret.y, vs)
                => ret.val = [t |-> "boolean", v |-> TRUE]
           /\ StrictlyOutside(ret.x, ret.y, vs)
                => ret.val = [t |-> "boolean", v |-> FALSE]
           /\ (vs = UnitSquareRing /\ ret.x = 1 /\ ret.y = 1)
                => ret.val = [t |-> "boolean", v |-> TRUE]
           /\ (vs = UnitSquareRing /\ ret.x = 4 /\ ret.y = 4)
                => ret.val = [t |-> "boolean", v |-> FALSE]

\* pointInPolygon returned true at (0.5, 0.5) of the unit square.
C13_Witness ==
    /\ ret.op = "pointInPolygon"
    /\ Len(ret.contours) = 1
    /\ VerticesOf(ret.contours[1], ret.points) = UnitSquareRing
    /\ ret.x = 1 /\ ret.y = 1
    /\ ret.val = [t |-> "boolean", v |-> TRUE]

---------------------------------------------------------------------------
(* C14: the cache of transforms *)

\* Entry id of the cache of data is there.
IsCached(data, id) ==
    /\ data.viewportTransforms # Undefined
    /\ id \in DOMAIN data.viewportTransforms.v
    /\ data.viewportTransforms.v[id] # Undefined

\* C14: the cache is append-only while the data stays: a step other than
\* setData keeps every entry there is as it is; a get that computes a
\* transform caches what it returns; and a get of an id that is cached
\* returns the entry without computing it.
C14_CacheAppendOnly ==
    [][ /\ ret'.op # "setData" =>
              \A id \in DOMAIN f2d.viewports :
                 IsCached(f2d, id) =>
                    /\ IsCached(f2d', id)
                    /\ f2d'.viewportTransforms.v[id] = f2d.viewportTransforms.v[id]
        /\ (ret'.op = "getPageToModelTransform" /\ ret'.computed) =>
              /\ IsCached(f2d', ret'.vpId)
              /\ f2d'.viewportTransforms.v[ret'.vpId] = ret'.val
        /\ (ret'.op = "getPageToModelTransform" /\ IsCached(f2d, ret'.vpId)) =>
              /\ ret'.val = f2d.viewportTransforms.v[ret'.vpId]
              /\ ~ret'.computed
      ]_vars

\* A get has returned the cached entry of its id without computing it,
\* while the entry of another id is cached too.
C14_Witness ==
    /\ ret.op = "getPageToModelTransform"
    /\ ~ret.computed
    /\ IsCached(f2d, ret.vpId)
    /\ ret.val = f2d.viewportTransforms.v[ret.vpId]
    /\ ret.val # IdentityMatrix
    /\ \E id \in DOMAIN f2d.viewports : id # ret.vpId /\ IsCached(f2d, id)

---------------------------------------------------------------------------
(* C15: calls with a null item *)

\* The values that stand for nothing: the empty string, null, undefined, 0.
NeutralValues == {Str(<<>>), Null, Undefined, Num(0)}

\* C15 (as claimed): called with a null item, getViewablePath,
\* getViewGeometry, getNumViews and getThumbnailPath each return a neutral
\* value and raise nothing.
C15_NullItemNeutral ==
    (ret.op \in {"getViewablePath", "getViewGeometry", "getNumViews",
                 "getThumbnailPath"}
        /\ ret.item = NoNode)
        => ret.val \in NeutralValues

---------------------------------------------------------------------------
(* C16: the transform of an id that has no viewport *)

\* The step is a get of an id that has no viewport entry.
C16_Case == ret'.op = "getPageToModelTransform" /\ ret'.vpId \notin DOMAIN f2d.viewports

\* C16 (as claimed): a get of an id that has no viewport entry returns the
\* identity transform and leaves the data, the cache with it, as it was.
C16_InvalidIdGivesIdentity ==
    [][ C16_Case => (ret'.val = IdentityMatrix /\ f2d' = f2d) ]_vars

\* C16 amended: a get of an id that has no viewport entry leaves the data,
\* the cache with it, as it was (no entry, no array allocated), and returns
\* the identity transform when the data has no pageToModelTransform of its
\* own, and that pageToModelTransform when it has.
C16_InvalidIdGivesIdentityOrOwn ==
    [][ C16_Case =>
          /\ f2d' = f2d
          /\ ret'.val = IF f2d.pageToModelTransform = Undefined
                        THEN IdentityMatrix
                        ELSE f2d.pageToModelTransform
      ]_vars

\* A get of an id that has no viewport entry has returned the identity
\* transform, and there is still no cache array.
C16_Witness ==
    /\ ret.op = "getPageToModelTransform"
    /\ ret.vpId \notin DOMAIN f2d.viewports
    /\ f2d.pageToModelTransform = Undefined
    /\ ret.val = IdentityMatrix
    /\ f2d.viewportTransforms = Undefined

---------------------------------------------------------------------------
(* C17: maxLevel of the load options *)

\* getViewablePath was asked with load options for a geometry item with
\* role 2d that has a direct leaflet child, so that getLeafletParams ran.
C17_Case ==
    /\ ret.op = "getViewablePath" /\ ret.hasOut /\ ret.item # NoNode
    /\ TypeOf(myData, ret.item) = "geometry" /\ RoleOf(myData, ret.item) = "2d"
    /\ DirectChildrenWith(myData, ret.item, [role |-> "leaflet"]) # <<>>

\* The proper descendants of item that have role leaflet-zip, in pre-order.
ZipsBelow(d, item) ==
    SelectSeq(Tail(PreOrder(d, item)),
              LAMBDA c : hasProperties(d, c, [role |-> "leaflet-zip"]))

\* C17 (as claimed): maxLevel is zip.max_level - levelOffset whenever the
\* geometry item has a leaflet-zip resource as a direct child or as a deeper
\* descendant, and is left unset when it has none.
C17_MaxLevelFromAnyZipBelow ==
    C17_Case =>
        LET zips == ZipsBelow(myData, ret.item)
        IN IF zips = <<>> THEN ret.out.maxLevel = Undefined
           ELSE ret.out.maxLevel \in
                   {Num(ZipMaxLevel(zips[k]) - ret.out.levelOffset.v) :
                        k \in 1..Len(zips)}

\* C17 amended: maxLevel is max_level of the first direct child with role
\* leaflet-zip less levelOffset, and is left unset when no direct child has
\* that role, whatever lies deeper.
C17_MaxLevelFromDirectZip ==
    C17_Case =>
        LET zips == DirectChildrenWith(myData, ret.item, [role |-> "leaflet-zip"])
        IN IF zips = <<>> THEN ret.out.maxLevel = Undefined
           ELSE ret.out.maxLevel =
                   Num(ZipMaxLevel(zips[1]) - ret.out.levelOffset.v)

\* maxLevel was set from a direct leaflet-zip child.
C17_Witness ==
    /\ C17_Case
    /\ DirectChildrenWith(myData, ret.item, [role |-> "leaflet-zip"]) # <<>>
    /\ ret.out.maxLevel.t = "number"
    /\ ret.out.levelOffset.t = "number"
    /\ ret.out.levelOffset.v > 0

---------------------------------------------------------------------------
(* C18, C19: the rules of getFullPath *)

\* The position of the first separator of s, counted from 1; 0 if none.
FirstSeparator(s) ==
    IF \E k \in 1..Len(s) : s[k] = "/"
    THEN CHOOSE k \in 1..Len(s) : s[k] = "/" /\ \A j \in 1..(k - 1) : s[j] # "/"
    ELSE 0

\* s from its first separator on.
FromFirstSeparator(s) == SubSeq(s, FirstSeparator(s), Len(s))

IsPrefixOf(pre, s) == Len(pre) <= Len(s) /\ SubSeq(s, 1, Len(pre)) = pre

\* The source path of the document holds the manifest filename.
HasManifestName == \E k \in 1..Len(myPath) : IsPrefixOf(BUBBLE_JSON, SubSeq(myPath, k, Len(myPath)))

\* The rewrite to the viewing service, and the rewrite of a urn that starts
\* with the marker to the directory of the document.
ItemsRewrite(u) == Str(VIEWING_URL \o ITEMS \o u)
DirectoryRewrite(u) ==
    Str(Replace(myPath, BUBBLE_JSON, <<>>) \o SubSeq(u, Len(FILE_MARKER) + 1, Len(u)))

\* C18: the first rule that matches is the one applied, in the order empty
\* urn, offline mode, urn scheme, local-file marker: a null, undefined or
\* empty urn comes back unchanged in either mode; in offline mode a urn that
\* starts with urn or with the marker gets the decoded local prefix in
\* place of what stands before its first separator, and is rewritten neither
\* to the viewing service nor to the directory of the document; outside
\* offline mode a urn that starts with urn is rewritten to the viewing
\* service.
C18_FirstMatchingRule ==
    ret.op = "getFullPath" =>
        LET u == ret.urn
            prefix == decodeURIComponent(offlineResourcePrefix)
        IN /\ ~Truthy(u) => ret.val = u
           /\ (Truthy(u) /\ offline
                 /\ (IsPrefixOf(URN, u.v) \/ IsPrefixOf(FILE_MARKER, u.v))) =>
                 /\ ret.val # ItemsRewrite(u.v)
                 /\ (IsPrefixOf(FILE_MARKER, u.v) /\ HasManifestName)
                       => ret.val # DirectoryRewrite(u.v)
                 /\ prefix.t = "string" =>
                       /\ ret.val.t = "string"
                       /\ IsPrefixOf(prefix.v, ret.val.v)
                       /\ FirstSeparator(u.v) # 0 =>
                             ret.val.v = prefix.v \o FromFirstSeparator(u.v)
           /\ (Truthy(u) /\ ~offline /\ IsPrefixOf(URN, u.v)) =>
                 ret.val = ItemsRewrite(u.v)

\* In offline mode, a urn that starts with urn and has a separator came
\* back with the local prefix in place of what stood before the separator.
C18_Witness ==
    /\ ret.op = "getFullPath"
    /\ offline
    /\ Truthy(ret.urn)
    /\ IsPrefixOf(URN, ret.urn.v)
    /\ FirstSeparator(ret.urn.v) > Len(URN)
    /\ FirstSeparator(ret.urn.v) < Len(ret.urn.v)
    /\ offlineResourcePrefix = <<"l", "%", "2", "F", "r">>
    /\ ret.val = Str(<<"l", "/", "r">> \o FromFirstSeparator(ret.urn.v))

\* The source path of the document ends in the manifest filename.
EndsInManifestName ==
    /\ Len(myPath) >= Len(BUBBLE_JSON)
    /\ IsPrefixOf(BUBBLE_JSON,
                  SubSeq(myPath, Len(myPath) - Len(BUBBLE_JSON) + 1, Len(myPath)))

\* The source path without the first manifest filename in it.
PathWithoutManifestName ==
    LET k == CHOOSE k \in 1..Len(myPath) :
                /\ IsPrefixOf(BUBBLE_JSON, SubSeq(myPath, k, Len(myPath)))
                /\ \A j \in 1..(k - 1) :
                      ~IsPrefixOf(BUBBLE_JSON, SubSeq(myPath, j, Len(myPath)))
    IN SubSeq(myPath, 1, k - 1) \o SubSeq(myPath, k + Len(BUBBLE_JSON), Len(myPath))

\* Outside offline mode, a urn that starts with the local-file marker.
C19_Case ==
    /\ ret.op = "getFullPath"
    /\ ~offline
    /\ Truthy(ret.urn)
    /\ IsPrefixOf(FILE_MARKER, ret.urn.v)

WithoutMarker(u) == SubSeq(u, Len(FILE_MARKER) + 1, Len(u))

\* C19 (as claimed): the urn is rewritten, the marker giving way to the
\* directory of the document, if and only if the source path ends in
\* /bubble.json; otherwise it comes back unchanged.
C19_RewrittenIffPathEndsInManifest ==
    C19_Case =>
        ret.val = IF EndsInManifestName
                  THEN Str(PathWithoutManifestName \o WithoutMarker(ret.urn.v))
                  ELSE ret.urn

\* C19 amended: the urn is rewritten if and only if the source path holds
\* /bubble.json anywhere, the marker giving way to the source path without
\* the first /bubble.json in it; otherwise it comes back unchanged.
C19_RewrittenIffPathHoldsManifest ==
    C19_Case =>
        ret.val = IF HasManifestName
                  THEN Str(PathWithoutManifestName \o WithoutMarker(ret.urn.v))
                  ELSE ret.urn

\* A urn with the marker was rewritten for a source path that holds
\* /bubble.json in the middle.
C19_Witness ==
    /\ C19_Case
    /\ HasManifestName /\ ~EndsInManifestName
    /\ ret.val # ret.urn
    /\ ret.val = Str(PathWithoutManifestName \o WithoutMarker(ret.urn.v))
    /\ WithoutMarker(ret.urn.v) # <<>>

---------------------------------------------------------------------------
(* C20: getViewablePath of a view *)

\* C20 (as claimed): for an item of type view, getViewablePath with load
\* options returns what it returns for the geometry node getViewGeometry
\* gives, and leaves the load options as the call on that node leaves them;
\* it returns the empty string when the view has no geometry.
C20_ViewBehavesAsItsGeometry ==
    (ret.op = "getViewablePath" /\ ret.item # NoNode
        /\ TypeOf(myData, ret.item) = "view") =>
        LET g == getViewGeometry(ret.item)
            given == IF ret.hasOut THEN EmptyOptions ELSE NoOptions
        IN IF g.t = "node"
           THEN /\ ret.val = getViewablePath(g.v, given).val
                /\ ret.out = getViewablePath(g.v, given).out
           ELSE /\ ret.val = Str(<<>>)
                /\ ret.out = given

---------------------------------------------------------------------------
(* C21: getViewablePath of a geometry *)

\* The proper descendants of item that have the properties, in pre-order.
DescendantsWith(d, item, properties) ==
    SelectSeq(Tail(PreOrder(d, item)), LAMBDA c : hasProperties(d, c, properties))

\* The resources the chain finds for a geometry item with role 3d, or with
\* role 2d and no leaflet child, or with another role.
C21_Found(d, item) ==
    CASE RoleOf(d, item) = "3d" -> DirectChildrenWith(d, item, [mime |-> MIME_SVF])
      [] RoleOf(d, item) = "2d" ->
            IF DirectChildrenWith(d, item, [mime |-> MIME_F2D]) # <<>>
            THEN DirectChildrenWith(d, item, [mime |-> MIME_F2D])
            ELSE DescendantsWith(d, item, [role |-> "tileRoot"])
      [] OTHER -> <<>>

\* getViewablePath was asked for a geometry item that the chain is stated
\* for: role 2d with a leaflet child is left out.
C21_Case ==
    /\ ret.op = "getViewablePath" /\ ret.item # NoNode
    /\ TypeOf(myData, ret.item) = "geometry"
    /\ (RoleOf(myData, ret.item) = "2d"
          => DirectChildrenWith(myData, ret.item, [role |-> "leaflet"]) = <<>>)

\* C21 (as claimed): getViewablePath of a geometry item returns a string:
\* the full path of the urn of the first resource the chain finds, and the
\* empty string when it finds none or when that resource has no urn.
C21_AlwaysAString ==
    C21_Case =>
        LET found == C21_Found(myData, ret.item)
        IN ret.val = IF found = <<>> \/ ~Truthy(UrnOfNode(myData, found[1]))
                     THEN Str(<<>>)
                     ELSE getFullPath(UrnOfNode(myData, found[1]))

---------------------------------------------------------------------------
(* C22: pageToModel *)

\* The image of (x, y, 0) under the matrix m of rationals: the first two
\* coordinates, the third column of m taking no part.
ImageOf(m, x, y) ==
    [ x |-> Quotient(m.num[1] * x + m.num[5] * y + m.num[13], m.den),
      y |-> Quotient(m.num[2] * x + m.num[6] * y + m.num[14], m.den) ]

\* C22: pageToModel overwrites x and y of both points with the image of
\* (x, y, 0) under the transform a get of viewportId returns, leaves z of
\* both points as it was, and does to the drawing data what that one get
\* does: the cached transform of no other viewport is computed or changed.
C22_ConvertsThroughOwnViewportOnly ==
    [][ ret'.op = "pageToModel" =>
          \A g \in {getPageToModelTransform(f2d, ret'.vpId)} :
          LET image1 == ImageOf(g.val, ret'.point1.x, ret'.point1.y)
              image2 == ImageOf(g.val, ret'.point2.x, ret'.point2.y)
          IN /\ ret'.point1After = [x |-> image1.x, y |-> image1.y, z |-> ret'.point1.z]
             /\ ret'.point2After = [x |-> image2.x, y |-> image2.y, z |-> ret'.point2.z]
             /\ f2d' = g.data
             /\ \A id \in DOMAIN f2d.viewports \ {ret'.vpId} :
                   /\ IsCached(f2d', id) <=> IsCached(f2d, id)
                   /\ IsCached(f2d, id) =>
                         f2d'.viewportTransforms.v[id] = f2d.viewportTransforms.v[id]
      ]_vars

\* A point with a height that lies in the clip of viewport 2 has been
\* converted through viewport 1: x and y have changed, the height has not,
\* and the transform of viewport 2 is not cached.
C22_Witness ==
    /\ ret.op = "pageToModel" /\ ret.vpId = 1
    /\ ret.point1 = [x |-> 1, y |-> 1, z |-> 5]
    /\ ret.point1After.x # Quotient(1, 1)
    /\ ret.point1After.y # Quotient(1, 1)
    /\ ret.point1After.z = 5
    /\ ret.point2After # ret.point1After
    /\ IsCached(f2d, 1) /\ ~IsCached(f2d, 2)
    /\ pointInClip(f2d, ret.point1, Num(1)) = List(<<2>>)

---------------------------------------------------------------------------
(* C23: getClip *)

RECURSIVE SumOf(_)
SumOf(sq) == IF sq = <<>> THEN 0 ELSE Head(sq) + SumOf(Tail(sq))

RECURSIVE Concatenated(_)
Concatenated(sqs) == IF sqs = <<>> THEN <<>> ELSE Head(sqs) \o Concatenated(Tail(sqs))

\* A decode of a clip that is there.
C23_Case(r, data) == r.op = "getClip" /\ r.vpId + 1 \in DOMAIN data.clips

\* C23: getClip yields one contour per entry of contourCounts, contour k
\* being the contourCounts[k] consecutive point indices from the sum of the
\* earlier counts on, so that the contours in order run through 0..sum-1;
\* it yields one point per pair of numbers of the flat points array; and it
\* leaves the drawing data as it is, the result being the same for the
\* same clip.
C23_DecodesClip ==
    [][ C23_Case(ret', f2d) =>
          LET clip == f2d.clips[ret'.vpId + 1]
              counts == clip.contourCounts
              contours == ret'.val.contours
              pts == ret'.val.points
          IN /\ Len(contours) = Len(counts)
             /\ \A k \in 1..Len(counts) :
                   /\ Len(contours[k]) = counts[k]
                   /\ \A n \in 1..counts[k] :
                         contours[k][n] = SumOf(SubSeq(counts, 1, k - 1)) + n - 1
             /\ Concatenated(contours) = [n \in 1..SumOf(counts) |-> n - 1]
             /\ Len(pts) * 2 = Len(clip.points)
             /\ \A n \in 1..Len(pts) :
                   pts[n] = [x |-> clip.points[2 * n - 1], y |-> clip.points[2 * n]]
             /\ f2d' = f2d
             /\ ret'.val = getClip(f2d', ret'.vpId)
      ]_vars

\* The clip of a square with a square hole has been decoded: two contours,
\* the second of which begins at point 4, and eight points.
C23_Witness ==
    /\ C23_Case(ret, f2d)
    /\ Len(ret.val.contours) = 2
    /\ ret.val.contours[2] = <<4, 5, 6, 7>>
    /\ Len(ret.val.points) = 8
    /\ ret.val.points[5] = [x |-> 1, y |-> 1]

---------------------------------------------------------------------------
(* C24: the retry after a 401 *)

\* The requests for the manifest that load l has sent again.
RetriesOf(l) == IF l.sent > 1 THEN l.sent - 1 ELSE 0

RECURSIVE TotalRetries(_)
TotalRetries(ls) ==
    IF ls = <<>> THEN 0 ELSE RetriesOf(Head(ls)) + TotalRetries(Tail(ls))

\* The transport has answered a request of load i with a 401 in this step.
Fails401(i) ==
    /\ i \in DOMAIN loads
    /\ Len(loads'[i].answers) = Len(loads[i].answers) + 1
    /\ loads'[i].answers[Len(loads'[i].answers)] = 401

IsPending(requests, i) == \E r \in requests : r.load = i

\* C24: a request is sent again only in answer to a 401 while the flag is
\* undefined, and that step sets the flag to false; the flag never becomes
\* undefined again, so that all loads together send at most one request
\* again; and a 401 that arrives when the flag is set leaves no request of
\* the load behind and invokes the error callback of the load with the
\* code of 401.
C24_RetriesAtMostOnce ==
    [][ /\ \A i \in DOMAIN loads :
              /\ (loads[i].sent >= 1 /\ loads'[i].sent > loads[i].sent) =>
                    /\ Fails401(i)
                    /\ LMV_THIRD_PARTY_COOKIE = Undefined
                    /\ LMV_THIRD_PARTY_COOKIE' = Bool(FALSE)
              /\ (Fails401(i) /\ LMV_THIRD_PARTY_COOKIE # Undefined) =>
                    /\ loads'[i].sent = loads[i].sent
                    /\ ~IsPending(pending', i)
                    /\ IsFunction(loads[i].onErrorCallback) =>
                          /\ Len(loads'[i].invoked) = Len(loads[i].invoked) + 1
                          /\ loads'[i].invoked[Len(loads'[i].invoked)].fn
                                = loads[i].onErrorCallback.v
                          /\ loads'[i].invoked[Len(loads'[i].invoked)].args[2] = 401
        /\ LMV_THIRD_PARTY_COOKIE # Undefined => LMV_THIRD_PARTY_COOKIE' # Undefined
        /\ TotalRetries(loads') <= 1
        /\ \A i \in DOMAIN loads' : loads'[i].sent <= 2
      ]_vars

\* A load has been answered with 401 twice: the first answer made it send
\* the request again and set the flag, the second one invoked its error
\* callback.
C24_Witness ==
    \E i \in DOMAIN loads :
        /\ loads[i].answers = <<401, 401>>
        /\ loads[i].sent = 2
        /\ LMV_THIRD_PARTY_COOKIE = Bool(FALSE)
        /\ ~IsPending(pending, i)
        /\ Len(loads[i].invoked) = 1
        /\ loads[i].invoked[1].fn = "onErrorCallback"
        /\ loads[i].invoked[1].args[2] = 401

---------------------------------------------------------------------------
(* C25: the deprecated signature with the error callback missing *)

\* Load i was called as load(id, auth, onSuccess).
C25_Case(i) ==
    /\ Len(loads[i].args) = 3
    /\ ~IsFunction(loads[i].args[2])
    /\ loads[i].args[3] = onSuccessCallback

\* C25 (as claimed): for load(id, auth, onSuccess) the success callback is
\* invoked with a document only, and only after the manifest has arrived:
\* never on a failed request, on bad data or on a manifest without
\* viewables.
C25_SuccessCallbackOnlyOnSuccess ==
    \A i \in DOMAIN loads :
        C25_Case(i) =>
            \A k \in DOMAIN loads[i].invoked :
                loads[i].invoked[k].fn = "onSuccessCallback" =>
                    /\ loads[i].invoked[k].args[1].t = "document"
                    /\ getViewableCount(loads[i].invoked[k].args[1].myData) > 0
                    /\ loads[i].answers[Len(loads[i].answers)] = 200

\* The success callback of load(id, auth, onSuccess) has been invoked with
\* an error code.
C25_Reached ==
    \E i \in DOMAIN loads :
        /\ C25_Case(i)
        /\ Len(loads[i].invoked) = 1
        /\ loads[i].invoked[1].fn = "onSuccessCallback"
        /\ loads[i].invoked[1].args[1].t = "errorCode"

---------------------------------------------------------------------------
(* C26: what Document.load makes of the manifest *)

\* The geometry items beneath the first viewable folder below the root.
ViewablesOf(d) ==
    LET folders == DescendantsWith(d, 1, [type |-> "folder", role |-> "viewable"])
    IN IF folders = <<>> THEN <<>>
       ELSE DescendantsWith(d, folders[1], [type |-> "geometry"])

\* Load i was called as load(id, onSuccess, onError), with or without
\* access control properties, and has received a manifest.
C26_Case(i) ==
    /\ loads[i].args[2] = onSuccessCallback
    /\ Len(loads[i].args) >= 3
    /\ loads[i].args[3] = onErrorCallback
    /\ loads[i].received # <<>>

\* C26 (as claimed): the success callback is invoked only when the manifest
\* received holds no '<...script' content and has a geometry beneath its
\* first viewable folder; content that matches the pattern ends in the
\* error callback with BAD_DATA and no document, and a manifest without
\* viewables in the error callback with BAD_DATA_NO_VIEWABLE_CONTENT.
C26_ScriptContentNeverSucceeds ==
    \A i \in DOMAIN loads :
        C26_Case(i) =>
            LET data == loads[i].received[1]
                call == loads[i].invoked[1]
            IN /\ Len(loads[i].invoked) = 1
               /\ IF regexTest(TextOf(data))
                  THEN /\ call.fn = "onErrorCallback"
                       /\ call.args = <<ErrorCode("BAD_DATA")>>
                  ELSE IF ViewablesOf(data.items) = <<>>
                  THEN /\ call.fn = "onErrorCallback"
                       /\ call.args[1] = ErrorCode("BAD_DATA_NO_VIEWABLE_CONTENT")
                  ELSE /\ call.fn = "onSuccessCallback"
                       /\ call.args[1].t = "document"
                       /\ call.args[1].myData = traverse(data.items, 1)

\* The same for the manifests that arrive as a string.
C26_ScriptInStringNeverSucceeds ==
    \A i \in DOMAIN loads :
        (C26_Case(i) /\ loads[i].received[1].form = "string") =>
            LET data == loads[i].received[1]
                call == loads[i].invoked[1]
            IN /\ Len(loads[i].invoked) = 1
               /\ IF regexTest(TextOf(data))
                  THEN /\ call.fn = "onErrorCallback"
                       /\ call.args = <<ErrorCode("BAD_DATA")>>
                  ELSE IF ViewablesOf(data.items) = <<>>
                  THEN /\ call.fn = "onErrorCallback"
                       /\ call.args[1] = ErrorCode("BAD_DATA_NO_VIEWABLE_CONTENT")
                  ELSE /\ call.fn = "onSuccessCallback"
                       /\ call.args[1].t = "document"
                       /\ call.args[1].myData = traverse(data.items, 1)

---------------------------------------------------------------------------
(* C27: one callback, once *)

\* Load i has two callbacks, and they are different functions.
C27_Case(i) ==
    /\ IsFunction(loads[i].onSuccessCallback)
    /\ IsFunction(loads[i].onErrorCallback)
    /\ loads[i].onSuccessCallback # loads[i].onErrorCallback

\* C27: a load with distinct success and error callbacks, each of whose
\* requests is answered once, invokes at most one of the two callbacks and
\* invokes it at most once, also when a request is sent again after a 401;
\* and it invokes none while a request of it is pending.
C27_AtMostOneCallbackOnce ==
    \A i \in DOMAIN loads :
        C27_Case(i) =>
            /\ Len(loads[i].invoked) <= 1
            /\ IsPending(pending, i) => loads[i].invoked = <<>>
            /\ \A k \in DOMAIN loads[i].invoked :
                  loads[i].invoked[k].fn \in {"onSuccessCallback", "onErrorCallback"}

\* A load with distinct callbacks was answered with a 401, sent the request
\* again, received the manifest and invoked its success callback, once.
C27_Witness ==
    \E i \in DOMAIN loads :
        /\ C27_Case(i)
        /\ loads[i].answers = <<401, 200>>
        /\ loads[i].sent = 2
        /\ Len(loads[i].invoked) = 1
        /\ loads[i].invoked[1].fn = "onSuccessCallback"

---------------------------------------------------------------------------
(* C28: restoreState and the object of the caller *)

\* C28 (as claimed): restoreState leaves the viewer state of the caller as
\* it was, with or without a filter: every key, every value, and the types
\* of the elements of its vectors.
C28_CallerStateUntouched ==
    ret.op = "restoreState" => ret.after = ret.viewerState

\* The same for the calls with a filter other than the filter for
\* everything.
C28_CallerStateUntouchedUnderFilter ==
    (ret.op = "restoreState" /\ ret.filter.t = "object") =>
        ret.after = ret.viewerState

---------------------------------------------------------------------------
(* C29: soundness of the view-to-geometry index *)

\* C29: once the document is constructed, whenever getViewGeometry of an
\* item gives a node, that node is of type geometry and has a direct child
\* of type view with the guid of the item; and every view count recorded
\* for a guid belongs to a geometry node and is at most the number of its
\* children.
C29_ViewIndexSound ==
    built =>
        /\ \A v \in Nodes(myData) :
              getViewGeometry(v) # Undefined =>
                 LET g == getViewGeometry(v).v
                 IN /\ g \in Nodes(myData)
                    /\ TypeOf(myData, g) = "geometry"
                    /\ \E k \in 1..Len(myData.children[g]) :
                          /\ TypeOf(myData, myData.children[g][k]) = "view"
                          /\ GuidOf(myData.children[g][k]) = GuidOf(v)
        /\ \A i \in Nodes(myData) :
              myNumViews[GuidOf(i)] # Undefined =>
                  /\ TypeOf(myData, i) = "geometry"
                  /\ myNumViews[GuidOf(i)].v <= Len(myData.children[i])
        /\ \A guid \in Guids \ {GuidOf(i) : i \in Nodes(myData)} :
              myViewGeometry[guid] = NoNode /\ myNumViews[guid] = Undefined

\* A constructed document in which a geometry with three children, two of
\* them views, is the geometry of a view, with a count of 2.
C29_Witness ==
    /\ built
    /\ \E g \in Nodes(myData), v \in Nodes(myData) :
          /\ getViewGeometry(v) = Node(g)
          /\ TypeOf(myData, v) = "view"
          /\ Len(myData.children[g]) = 3
          /\ myNumViews[GuidOf(g)] = Num(2)

---------------------------------------------------------------------------
(* C30: the repair permutes rows 0-2 of a copy *)

\* Elements 4r .. 4r+3 of a 16-number array.
RowOf(e, r) == SubSeq(e, 4 * r + 1, 4 * r + 4)

\* C30: a get that computes the transform of a viewport repairs a copy of
\* the raw transform: the repaired array holds rows 0-2 of the raw
\* transform in some order, elements 12-15 where they were, and the raw
\* transform stored with the viewport is after the get what it was before.
C30_RepairPermutesRowsOfCopy ==
    [][ (ret'.op = "getPageToModelTransform" /\ ret'.computed) =>
          \A raw \in {f2d.viewports[ret'.vpId].transform} :
          \A repaired \in {repairViewportMatrix(raw)} :
             /\ \E p \in [0..2 -> 0..2] :
                   /\ \A a, b \in 0..2 : p[a] = p[b] => a = b
                   /\ \A r \in 0..2 : RowOf(repaired, r) = RowOf(raw, p[r])
             /\ RowOf(repaired, 3) = RowOf(raw, 3)
             /\ f2d'.viewports = f2d.viewports
             /\ ret'.val = multiply(getInverse(repaired),
                                    pageToLogical(f2d.metadata.page_dimensions))
      ]_vars

\* A get has computed the transform of a viewport whose raw transform the
\* repair changes, and the raw transform is still stored with the viewport.
C30_Witness ==
    /\ ret.op = "getPageToModelTransform" /\ ret.computed
    /\ repairViewportMatrix(f2d.viewports[ret.vpId].transform)
          # f2d.viewports[ret.vpId].transform
    /\ RowOf(repairViewportMatrix(f2d.viewports[ret.vpId].transform), 0)
          = RowOf(f2d.viewports[ret.vpId].transform, 1)
    /\ ret.val = f2d.viewportTransforms.v[ret.vpId]

=============================================================================
